---- MODULE Spec2Model ----
(***************************************************************************)
(* A model of the acquisition-and-processing pipeline of nss-crawler:      *)
(* the search coordinator (main.py), identifier synthesis in the source    *)
(* adapters, the download manager (download_nss.py), the text pipeline     *)
(* (convert_ocr.py) and the SQLite store with its FTS5 index (storage.py). *)
(* Each component has its own specification over its own variables; the   *)
(* variables of the other components stay at their idle values.            *)
(***************************************************************************)
EXTENDS Integers, Sequences, FiniteSets, TLC

(***************************************************************************)
(* Bounds of the model.                                                    *)
(***************************************************************************)
MaxWrites == 3        \* store: number of writes (saves and row updates) in a run
MaxPerSource == 2     \* search: length of the list one source adapter returns
MaxId == 2            \* search: number of distinct identifiers the sources know
MaxItems == 2         \* adapters: number of result items on a page
MaxDocs == 2          \* adapters: number of distinct decisions a source holds
MaxDownloads == 2     \* download: length of the list passed to download_decisions
MaxWorkers == 2       \* download: largest max_workers tried
MaxOcrDocs == 2       \* text pipeline: length of the list passed to convert_decisions
MaxBatch == 2         \* store: length of the list passed to save_decisions
MaxJobs == 2          \* background jobs: number of jobs created
MaxCallers == 3       \* threads that call JobManager() besides the importing one
MaxCalls == 2         \* JobManager() calls per such thread
MaxFound == 2         \* decisions the search phase of one run can return
MaxUnits == 2         \* background jobs: results or rows all jobs together work through

(***************************************************************************)
(* Python None / SQL NULL for text-valued fields.                          *)
(***************************************************************************)
None == "None"

VARIABLES
    \* ---- storage.py: the SQLite database
    rows,        \* table decisions: a set of rows
    fts,         \* FTS5 index decisions_fts: postings <<rowid, column, value>>
    seq,         \* sqlite_sequence of decisions (AUTOINCREMENT)
    clock,       \* datetime.now(), one tick per write
    lastOp,      \* the last write performed on the database
    \* ---- main.py: NSSCrawler._search_phase
    config,          \* DEBUG_MODE and the ENABLE_* flags read from config
    spc,             \* position in _search_phase
    all_decisions,   \* the list the adapters' results are appended to
    final_decisions, \* the returned list
    stats,           \* CrawlerStats: errors, decisions_found
    outputs,         \* what each invoked adapter returned (history)
    calls,           \* per adapter invoked: the state of its source and how the call ended
    \* ---- the source adapters: one pass over a page of result items
    strategy,        \* which adapter strategy parses the page
    court_code,      \* the regional court searched
    year,            \* datetime.now().year of the run
    now,             \* int(time.time()) during the pass
    items,           \* the result items of the page
    page_decisions,  \* the Decisions built from them, one per item
    apc,             \* "page" before the pass, "parsed" after
    \* ---- download_nss.py: NSSDownloader.download_decisions
    dl_input,        \* the list passed in, as it was at the call (history)
    dl_objs,         \* the Decision objects of that list, as they are now
    pdf_dir,         \* PDF_STORAGE_PATH: file name -> whose download it holds
    max_workers,     \* size of the thread pool
    workers,         \* per submitted decision: the state of its task
    downloaded_decisions,  \* the result list (indices of dl_objs)
    failed_count,
    dpc,             \* "running" until download_decisions returns
    fetched,         \* per task: the response it was seen to receive, if any
    \* ---- convert_ocr.py: PDFOCRConverter.convert_decisions, and main.py run()
    ocr_input,       \* the decisions passed in, by ecli
    orig_dir,        \* PDF_STORAGE_PATH: file name -> file
    ocr_dir,         \* PDF_OCR_PATH: file name -> file
    tasks,           \* per submitted decision: the state of its worker process
    processed_decisions,   \* the result list
    ocr_failed_count,
    forwarded,       \* what run() hands to the index phase
    opc,             \* "running", "returned", then "indexed" or "stopped"
    first_run,       \* the tasks of the first call, once a second one is made
    \* ---- job_manager.py, and the background threads of web_app.py
    job_objs,        \* the JobStatus objects created so far
    registry,        \* JobManager.jobs: job_id -> JobStatus object (its index)
    jnow,            \* int(time.time()) as create_job last read it
    jthreads,        \* per JobStatus object: the thread working for it
    cancel_seen,     \* the last cancel_job call on record: its argument, what
                     \* it returned and the JobStatus objects before it
    \* ---- regional_courts.py: RegionalCourtSearcher._search_court
    use_selenium,    \* self.use_selenium
    max_results,
    strategy_outs,   \* what each strategy ends in if it is called
    court_decisions, \* the local variable decisions of _search_court
    ran,             \* the strategies called so far, in order
    chain_result,    \* what _search_court returns
    cpc,             \* the strategy to try next, then "returned"
    \* ---- job_manager.py: JobManager.__new__ and the module's import
    cls_instance,    \* JobManager._instance: None or the object (its number)
    cls_lock,        \* JobManager._lock: None or the thread that holds it
    with_jobs,       \* the objects whose attribute jobs has been assigned
    made,            \* how often lines 82 and 83 have run
    callers,         \* per thread: its place in __new__ and what it got
    imported,        \* the module body of job_manager has run to its end
    \* ---- main.py: NSSCrawler.run
    run_config,      \* DEBUG_MODE and PDF_OCR_ENABLED as read from config
    run_stats,       \* self.stats
    run_decisions,   \* len(self.decisions)
    rpc              \* the phase to run next, then "finally", "returned"

storeVars == <<rows, fts, seq, clock, lastOp>>
searchVars == <<config, spc, all_decisions, final_decisions, stats, outputs, calls>>
adapterVars == <<strategy, court_code, year, now, items, page_decisions, apc>>
downloadVars == <<dl_input, dl_objs, pdf_dir, max_workers, workers,
                  downloaded_decisions, failed_count, dpc, fetched>>
ocrVars == <<ocr_input, orig_dir, ocr_dir, tasks, processed_decisions,
             ocr_failed_count, forwarded, opc, first_run>>
jobVars == <<job_objs, registry, jnow, jthreads, cancel_seen>>
chainVars == <<use_selenium, max_results, strategy_outs, court_decisions, ran,
               chain_result, cpc>>
singletonVars == <<cls_instance, cls_lock, with_jobs, made, callers, imported>>
crawlerVars == <<run_config, run_stats, run_decisions, rpc>>

vars == <<rows, fts, seq, clock, lastOp,
          config, spc, all_decisions, final_decisions, stats, outputs, calls,
          strategy, court_code, year, now, items, page_decisions, apc,
          dl_input, dl_objs, pdf_dir, max_workers, workers,
          downloaded_decisions, failed_count, dpc, fetched,
          ocr_input, orig_dir, ocr_dir, tasks, processed_decisions,
          ocr_failed_count, forwarded, opc, first_run,
          job_objs, registry, jnow, jthreads, cancel_seen,
          use_selenium, max_results, strategy_outs, court_decisions, ran,
          chain_result, cpc,
          cls_instance, cls_lock, with_jobs, made, callers, imported,
          run_config, run_stats, run_decisions, rpc>>

(***************************************************************************)
(* storage.py: conversions between Decision fields and columns.            *)
(***************************************************************************)
\* A datetime is <<[day, usec]>>, no date is <<>>.  datetime.isoformat() prints
\* the microseconds only when they are not zero; the printed text is modelled
\* as the sequence of its numeric parts.
isoformat(dt) == IF dt.usec = 0 THEN <<dt.day>> ELSE <<dt.day, dt.usec>>

\* datetime.fromisoformat; <<>> stands for the ValueError case.
fromisoformat(s) ==
    IF Len(s) = 1 THEN <<[day |-> s[1], usec |-> 0]>>
    ELSE IF Len(s) = 2 /\ s[2] # 0 THEN <<[day |-> s[1], usec |-> s[2]]>>
    ELSE <<>>

\* date_str = decision.date.isoformat() if decision.date else None
date_str(date) == IF date = <<>> THEN <<>> ELSE <<isoformat(date[1])>>

\* A string is a sequence of characters; ",".join(list)
RECURSIVE join(_)
join(kws) ==
    IF Len(kws) = 0 THEN <<>>
    ELSE IF Len(kws) = 1 THEN kws[1]
    ELSE kws[1] \o <<",">> \o join(Tail(kws))

\* keywords_str = ",".join(decision.keywords) if decision.keywords else ""
keywords_str(kws) == IF kws = <<>> THEN <<>> ELSE join(kws)

\* str.split(','): the pieces between the commas, k+1 pieces for k commas
RECURSIVE split(_)
split(s) ==
    IF \A i \in 1..Len(s) : s[i] # ","
    THEN <<s>>
    ELSE LET k == CHOOSE i \in 1..Len(s) :
                     s[i] = "," /\ \A j \in 1..(i-1) : s[j] # ","
         IN <<SubSeq(s, 1, k-1)>> \o split(SubSeq(s, k+1, Len(s)))

\* _row_to_decision: the Decision built from a row; metadata takes the
\* dataclass default, an empty dict.
row_to_decision(row) ==
    [ ecli         |-> row.ecli,
      title        |-> row.title,
      date         |-> IF row.date # <<>>
                       THEN fromisoformat(row.date[1])
                       ELSE <<>>,
      url          |-> row.url,
      pdf_path     |-> row.pdf_path,
      ocr_pdf_path |-> row.ocr_pdf_path,
      full_text    |-> row.full_text,
      keywords     |-> IF row.keywords # <<>> THEN split(row.keywords) ELSE <<>>,
      metadata     |-> {} ]

\* get_decision: <<decision>>, or <<>> when no row has this ecli
get_decision(ecli) ==
    IF \E r \in rows : r.ecli = ecli
    THEN <<row_to_decision(CHOOSE r \in rows : r.ecli = ecli)>>
    ELSE <<>>

(***************************************************************************)
(* storage.py: the triggers that maintain decisions_fts, an external-      *)
(* content FTS5 table.  A posting <<rowid, column, value>> says the index  *)
(* holds the terms of value under rowid.                                   *)
(***************************************************************************)
postings(row) ==
    {<<row.id, "title", row.title>> : x \in IF row.title = None THEN {} ELSE {1}}
    \cup {<<row.id, "full_text", row.full_text>> :
              x \in IF row.full_text = None THEN {} ELSE {1}}

\* decisions_ai, AFTER INSERT: the new row's terms are added
decisions_ai(index, new) == index \cup postings(new)

\* decisions_au, AFTER UPDATE: FTS5 reads the terms to remove from the content
\* table, which already holds the new values; the new terms are (re)added and
\* the terms of the old values stay.
decisions_au(index, old, new) == index \cup postings(new)

\* INSERT OR REPLACE INTO decisions: a row in conflict on the UNIQUE ecli is
\* deleted and the new row inserted.  recursive_triggers is off (the default),
\* so decisions_ad does not fire for the replaced row.
insert_or_replace(table, row) == {r \in table : r.ecli # row.ecli} \cup {row}

(***************************************************************************)
(* main.py: the search coordinator, NSSCrawler._search_phase.              *)
(***************************************************************************)
Sources == <<"NSS", "NS", "Regional">>      \* in invocation order

\* A flag of config is TRUE, FALSE, or not defined in config at all: reading
\* an undefined name raises NameError.
FlagValues == {"True", "False", "undefined"}

SearchIds == 1..MaxId

\* The Decision an adapter returns at position i of its list: ecli is the
\* identifier; title stands for the rest of the record and tells the records
\* of different adapters and positions apart.
AdapterDecision(src, i, id) == [ecli |-> id, title |-> <<src, i>>]

\* The lists an adapter may return
AdapterOutputs(src) ==
    UNION { { [i \in 1..n |-> AdapterDecision(src, i, ids[i])] :
                ids \in [1..n -> SearchIds] } : n \in 0..MaxPerSource }

\* _create_mock_decisions: five records ECLI:CZ:NSS:2025:TEST.1 .. TEST.5
create_mock_decisions ==
    [i \in 1..5 |-> [ecli |-> 100 + i, title |-> <<"mock", i>>]]

\* A Python dict is a sequence of <<key, value>> in insertion order.
dict_has(dict, k) == \E i \in 1..Len(dict) : dict[i][1] = k

\* dict[k] = v: a new key is appended, an existing key keeps its position
dict_set(dict, k, v) ==
    IF dict_has(dict, k)
    THEN [i \in 1..Len(dict) |-> IF dict[i][1] = k THEN <<k, v>> ELSE dict[i]]
    ELSE Append(dict, <<k, v>>)

\* list(dict.values())
dict_values(dict) == [i \in 1..Len(dict) |-> dict[i][2]]

\* the loop body without its membership test: a later duplicate overwrites
dedup_step_overwrite(unique_decisions, decision) ==
    dict_set(unique_decisions, decision.ecli, decision)

\* one pass of the loop body at lines 131-132
dedup_step(unique_decisions, decision) ==
    IF ~ dict_has(unique_decisions, decision.ecli)
    THEN dict_set(unique_decisions, decision.ecli, decision)
    ELSE unique_decisions

\* for decision in all_decisions: ...
RECURSIVE dedup_loop(_, _)
dedup_loop(unique_decisions, decisions) ==
    IF decisions = <<>> THEN unique_decisions
    ELSE dedup_loop(dedup_step(unique_decisions, Head(decisions)),
                    Tail(decisions))

SearchIdle ==
    /\ config = [DEBUG_MODE |-> "True", NSS |-> "undefined",
                 NS |-> "undefined", Regional |-> "undefined"]
    /\ spc = "idle"
    /\ all_decisions = <<>>
    /\ final_decisions = <<>>
    /\ stats = [errors |-> 0, decisions_found |-> 0]
    /\ outputs = [s \in {} |-> <<>>]
    /\ calls = [s \in {} |-> <<>>]

SearchInit ==
    /\ config \in [DEBUG_MODE : {"True", "False"}, NSS : FlagValues,
                   NS : FlagValues, Regional : FlagValues]
    /\ spc = "start"
    /\ all_decisions = <<>>
    /\ final_decisions = <<>>
    /\ stats = [errors |-> 0, decisions_found |-> 0]
    /\ outputs = [s \in {} |-> <<>>]
    /\ calls = [s \in {} |-> <<>>]

\* lines 89-93
SearchStart ==
    /\ spc = "start"
    /\ IF config.DEBUG_MODE = "True"
       THEN /\ final_decisions' = create_mock_decisions
            /\ spc' = "returned"
       ELSE /\ spc' = "NSS"
            /\ UNCHANGED final_decisions
    /\ UNCHANGED <<config, all_decisions, stats, outputs, calls>>
    /\ UNCHANGED <<storeVars, adapterVars, downloadVars, ocrVars, jobVars, chainVars,
                   singletonVars, crawlerVars>>

NextSource(src) ==
    CASE src = "NSS" -> "NS"
      [] src = "NS" -> "Regional"
      [] src = "Regional" -> "dedup"

\* the flag of src is not defined: NameError leaves _search_phase
SourceUndefined(src) ==
    /\ spc = src
    /\ config[src] = "undefined"
    /\ spc' = "raised"
    /\ UNCHANGED <<config, all_decisions, final_decisions, stats, outputs, calls>>
    /\ UNCHANGED <<storeVars, adapterVars, downloadVars, ocrVars, jobVars, chainVars,
                   singletonVars, crawlerVars>>

\* if ENABLE_x is false the block is skipped
SourceDisabled(src) ==
    /\ spc = src
    /\ config[src] = "False"
    /\ spc' = NextSource(src)
    /\ UNCHANGED <<config, all_decisions, final_decisions, stats, outputs, calls>>
    /\ UNCHANGED <<storeVars, adapterVars, downloadVars, ocrVars, jobVars, chainVars,
                   singletonVars, crawlerVars>>

\* the adapter returns a list: all_decisions.extend(...)
SourceReturns(src) ==
    /\ spc = src
    /\ config[src] = "True"
    /\ \E out \in AdapterOutputs(src) :
         /\ all_decisions' = all_decisions \o out
         /\ outputs' = (src :> out) @@ outputs
    /\ calls' = (src :> [source |-> "reached", ended |-> "returned"]) @@ calls
    /\ spc' = NextSource(src)
    /\ UNCHANGED <<config, final_decisions, stats>>
    /\ UNCHANGED <<storeVars, adapterVars, downloadVars, ocrVars, jobVars, chainVars,
                   singletonVars, crawlerVars>>

\* the adapter raises: except Exception -> stats.errors += 1
SourceRaises(src) ==
    /\ spc = src
    /\ config[src] = "True"
    /\ stats' = [stats EXCEPT !.errors = @ + 1]
    /\ calls' = (src :> [source |-> "reached", ended |-> "raised"]) @@ calls
    /\ spc' = NextSource(src)
    /\ UNCHANGED <<config, all_decisions, final_decisions, outputs>>
    /\ UNCHANGED <<storeVars, adapterVars, downloadVars, ocrVars, jobVars, chainVars,
                   singletonVars, crawlerVars>>

\* How each adapter's search ends when its source cannot be reached.
\* search_nss: _download_xlsx uses a cached file younger than 7 days without
\* any request; otherwise requests.get / raise_for_status raise and nothing
\* catches it before _search_phase.
nss_unreachable(cached) == IF cached THEN "returned" ELSE "raised"

\* search_supreme_court: driver.get raises inside search_decisions, which
\* logs the exception and returns the empty list
ns_unreachable == "returned"

\* search_regional_courts: every strategy of _search_court raises and is
\* caught there, so each court gives [] and search_all_courts returns []
regional_unreachable == "returned"

unreachable_ends(src, cached) ==
    CASE src = "NSS" -> nss_unreachable(cached)
      [] src = "NS" -> ns_unreachable
      [] src = "Regional" -> regional_unreachable

\* the adapter is invoked while its source cannot be reached
SourceUnreachable(src) ==
    /\ spc = src
    /\ config[src] = "True"
    /\ \E cached \in BOOLEAN :
         LET ended == unreachable_ends(src, cached)
         IN /\ calls' = (src :> [source |-> IF src = "NSS" /\ cached
                                               THEN "not contacted" ELSE "unreachable",
                                   ended |-> ended]) @@ calls
            /\ IF ended = "raised"
               THEN /\ stats' = [stats EXCEPT !.errors = @ + 1]
                    /\ UNCHANGED <<all_decisions, outputs>>
               ELSE /\ \E out \in IF src = "NSS" THEN AdapterOutputs(src) ELSE {<<>>} :
                         /\ all_decisions' = all_decisions \o out
                         /\ outputs' = (src :> out) @@ outputs
                    /\ UNCHANGED stats
    /\ spc' = NextSource(src)
    /\ UNCHANGED <<config, final_decisions>>
    /\ UNCHANGED <<storeVars, adapterVars, downloadVars, ocrVars, jobVars, chainVars,
                   singletonVars, crawlerVars>>

\* lines 128-140: deduplication by ecli, decisions_found, return
Dedup ==
    /\ spc = "dedup"
    /\ LET unique_decisions == dedup_loop(<<>>, all_decisions)
       IN /\ final_decisions' = dict_values(unique_decisions)
          /\ stats' = [stats EXCEPT
                          !.decisions_found = Len(dict_values(unique_decisions))]
    /\ spc' = "returned"
    /\ UNCHANGED <<config, all_decisions, outputs, calls>>
    /\ UNCHANGED <<storeVars, adapterVars, downloadVars, ocrVars, jobVars, chainVars,
                   singletonVars, crawlerVars>>

SearchNext ==
    \/ SearchStart
    \/ \E i \in 1..Len(Sources) : SourceUndefined(Sources[i])
    \/ \E i \in 1..Len(Sources) : SourceDisabled(Sources[i])
    \/ \E i \in 1..Len(Sources) : SourceReturns(Sources[i])
    \/ \E i \in 1..Len(Sources) : SourceRaises(Sources[i])
    \/ \E i \in 1..Len(Sources) : SourceUnreachable(Sources[i])
    \/ Dedup

(***************************************************************************)
(* The source adapters: how each strategy gives a result item its          *)
(* identifier.  A string is the sequence of its pieces, so an f-string is  *)
(* a concatenation.                                                        *)
(***************************************************************************)
\* str.replace(' ', '-')
replace_spaces(str) == [i \in 1..Len(str) |-> IF str[i] = " " THEN "-" ELSE str[i]]

\* str.upper() on the words that occur
upper(word) == CASE word = "v" -> "V" [] word = "soud" -> "SOUD" [] OTHER -> word

\* REGIONAL_COURTS: code -> name, the name as str.split() cuts it
REGIONAL_COURTS ==
    [ KSOS |-> <<"Krajsky", "soud", "v", "Ostrave">>,
      KSPH |-> <<"Krajsky", "soud", "v", "Praze">> ]

\* The decisions a source holds are 1..MaxDocs.  Every decision has its own
\* canonical ECLI, case number and detail link.
Docs == 1..MaxDocs
CanonicalEcli(doc) == <<"ECLI:CZ:", ToString(doc)>>
CaseNumber(doc) == <<ToString(doc), " ", "As", " ", "1/2025">>
\* link.split('/') of https://host/rozhodnuti/<doc>/ and of the same link
\* without the closing slash
LinkParts(doc, closing_slash) ==
    <<"https:", "", "host", "rozhodnuti", ToString(doc)>>
        \o (IF closing_slash THEN <<"">> ELSE <<>>)

\* A result item: doc is the decision it shows; ecli and case_number are the
\* texts of the page elements, <<>> where the element is missing.
Item(doc, has_ecli, has_case, closing_slash) ==
    [ doc |-> doc,
      ecli |-> IF has_ecli THEN CanonicalEcli(doc) ELSE <<>>,
      case_number |-> IF has_case THEN CaseNumber(doc) ELSE <<>>,
      link |-> LinkParts(doc, closing_slash) ]

Strategies == {"xlsx", "ns", "portal", "selenium", "rss", "sbirka"}

\* what a page of each strategy can show
ItemsOf(strat) ==
    CASE strat = "xlsx" -> {Item(d, FALSE, TRUE, TRUE) : d \in Docs}
      [] strat = "ns" -> {Item(d, e, c, TRUE) : d \in Docs, e \in BOOLEAN, c \in BOOLEAN}
      [] strat = "portal" -> {Item(d, e, TRUE, TRUE) : d \in Docs, e \in BOOLEAN}
      [] strat = "selenium" -> {Item(d, FALSE, FALSE, TRUE) : d \in Docs}
      [] strat = "rss" -> {Item(d, FALSE, FALSE, s) : d \in Docs, s \in BOOLEAN}
      [] strat = "sbirka" -> {Item(d, FALSE, FALSE, TRUE) : d \in Docs}

Pages(strat) ==
    UNION { [1..n -> ItemsOf(strat)] : n \in 0..MaxItems }

\* search_nss.py _filter_xlsx_data: ecli=f"CZ:NSS:{spisova_znacka.replace(' ', '-')}"
xlsx_ecli(item) == <<"CZ:NSS:">> \o replace_spaces(item.case_number)

\* supreme_court.py _parse_results_page:
\*   ecli=ecli or f"CZ:NS:{case_number.replace(' ', '-')}"
ns_ecli(item) ==
    IF item.ecli # <<>> THEN item.ecli
    ELSE <<"CZ:NS:">> \o replace_spaces(item.case_number)

\* regional_courts.py _search_via_justice_portal:
\*   ecli=ecli or f"CZ:{court_code}:{datetime.now().year}:TEMP"
portal_ecli(item, court, yr) ==
    IF item.ecli # <<>> THEN item.ecli
    ELSE <<"CZ:", court, ":", ToString(yr), ":TEMP">>

\* regional_courts.py _search_via_selenium:
\*   ecli=f"CZ:{court_info['name'].split()[2].upper()}:{datetime.now().year}:TEMP"
selenium_ecli(item, court, yr) ==
    <<"CZ:", upper(REGIONAL_COURTS[court][3]), ":", ToString(yr), ":TEMP">>

\* regional_courts.py _search_via_rss: ecli=f"CZ:RSS:{link.split('/')[-2]}"
rss_ecli(item) == <<"CZ:RSS:", item.link[Len(item.link) - 1]>>

\* downloader.py search_and_download, for the i-th result of the page:
\*   ecli = f"CZ:NSS:SBIRKA:{int(time.time())}:{i}"
sbirka_ecli(i, t) == <<"CZ:NSS:SBIRKA:", ToString(t), ":", ToString(i)>>

\* the wall clock: datetime.now().year and int(time.time())
Years == {2025, 2026}
Times == {1762400000, 1762400001}

AdapterIdle ==
    /\ strategy = "none"
    /\ court_code = "KSOS"
    /\ year = 2025
    /\ now = 1762400000
    /\ items = <<>>
    /\ page_decisions = <<>>
    /\ apc = "idle"

AdapterInit ==
    /\ strategy \in Strategies
    /\ court_code \in DOMAIN REGIONAL_COURTS
    /\ year \in Years
    /\ now \in Times
    /\ items \in Pages(strategy)
    /\ page_decisions = <<>>
    /\ apc = "page"

\* A pass over the page builds one Decision per item; doc records which
\* decision the Decision stands for.
Parsed(strat) ==
    /\ apc = "page"
    /\ strategy = strat
    /\ apc' = "parsed"
    /\ UNCHANGED <<strategy, court_code, year, now, items>>
    /\ UNCHANGED <<storeVars, searchVars, downloadVars, ocrVars, jobVars, chainVars,
                   singletonVars, crawlerVars>>

\* search_nss.py _filter_xlsx_data
ParseXlsx ==
    /\ Parsed("xlsx")
    /\ page_decisions' = [i \in 1..Len(items) |->
           [ecli |-> xlsx_ecli(items[i]), doc |-> items[i].doc]]

\* supreme_court.py _parse_results_page
ParseNS ==
    /\ Parsed("ns")
    /\ page_decisions' = [i \in 1..Len(items) |->
           [ecli |-> ns_ecli(items[i]), doc |-> items[i].doc]]

\* regional_courts.py _search_via_justice_portal
ParsePortal ==
    /\ Parsed("portal")
    /\ page_decisions' = [i \in 1..Len(items) |->
           [ecli |-> portal_ecli(items[i], court_code, year), doc |-> items[i].doc]]

\* regional_courts.py _search_via_selenium
ParseSelenium ==
    /\ Parsed("selenium")
    /\ page_decisions' = [i \in 1..Len(items) |->
           [ecli |-> selenium_ecli(items[i], court_code, year), doc |-> items[i].doc]]

\* regional_courts.py _search_via_rss
ParseRss ==
    /\ Parsed("rss")
    /\ page_decisions' = [i \in 1..Len(items) |->
           [ecli |-> rss_ecli(items[i]), doc |-> items[i].doc]]

\* downloader.py search_and_download: the identifiers of the results of one
\* page, all read within the same second
ParseSbirka ==
    /\ Parsed("sbirka")
    /\ page_decisions' = [i \in 1..Len(items) |->
           [ecli |-> sbirka_ecli(i, now), doc |-> items[i].doc]]

AdapterNext ==
    \/ ParseSbirka
    \/ ParseXlsx
    \/ ParseNS
    \/ ParsePortal
    \/ ParseSelenium
    \/ ParseRss

(***************************************************************************)
(* download_nss.py: the download manager.                                  *)
(***************************************************************************)
MAX_RETRIES == 3
RETRY_DELAY == 2
MinPdfBytes == 1000

\* An ecli is the sequence of its characters.  The first two differ only in
\* a character the file name does not keep.
Eclis == { <<"a", ":", "1">>, <<"a", "/", "1">>, <<"b">> }

\* safe_ecli = decision.ecli.replace(':', '_').replace('/', '_')
safe_ecli(ecli) ==
    [i \in 1..Len(ecli) |-> IF ecli[i] \in {":", "/"} THEN "_" ELSE ecli[i]]

\* pdf_path = PDF_STORAGE_PATH / f"{safe_ecli}.pdf"
pdf_path_of(ecli) == safe_ecli(ecli) \o <<".pdf">>

NoPath == <<>>       \* pdf_path is None
NoText == <<>>       \* full_text is None; a text t is held as <<t>>

\* the lists download_decisions is called with: the coordinator's output,
\* one Decision per ecli, no artifact path yet
DownloadInputs ==
    UNION { { ds \in [1..n -> [ecli : Eclis, title : {"t1"}, url : {None, "u1"},
                                pdf_path : {NoPath}, ocr_pdf_path : {NoPath},
                                full_text : {NoText}]] :
                \A i, j \in 1..n : i # j => ds[i].ecli # ds[j].ecli } :
            n \in 0..MaxDownloads }

\* the states of PDF_STORAGE_PATH earlier runs can leave behind: every file
\* was written for a decision whose ecli gives that file name
PdfDirs ==
    UNION { { f \in [names -> Eclis] : \A nm \in names : pdf_path_of(f[nm]) = nm } :
            names \in SUBSET {pdf_path_of(e) : e \in Eclis} }

\* what one session.get(...) can end in: a RequestException (transport error
\* or raise_for_status), or a response with its Content-Type and size; a
\* response that is accepted may still fail to be written (OSError)
Responses ==
    [pdf : BOOLEAN, size : {MinPdfBytes - 1, MinPdfBytes, MinPdfBytes + 1},
     written : BOOLEAN]

NewTask == [st |-> "queued", attempt |-> 0, result |-> "pending",
            calls |-> 0, failures |-> 0, delays |-> <<>>, existed |-> FALSE]

DownloadIdle ==
    /\ dl_input = <<>>
    /\ dl_objs = <<>>
    /\ pdf_dir = <<>>
    /\ max_workers = 1
    /\ workers = <<>>
    /\ downloaded_decisions = <<>>
    /\ failed_count = 0
    /\ dpc = "idle"
    /\ fetched = <<>>

\* download_decisions up to the submission of every decision (lines 48-58)
DownloadInit ==
    /\ dl_input \in DownloadInputs
    /\ dl_objs = dl_input
    /\ pdf_dir \in PdfDirs
    /\ max_workers \in 1..MaxWorkers
    /\ workers = [i \in 1..Len(dl_input) |-> NewTask]
    /\ downloaded_decisions = <<>>
    /\ failed_count = 0
    /\ dpc = "running"
    /\ fetched = [i \in 1..Len(dl_input) |-> <<>>]

\* a downloader that never finds the file, for comparison
pdf_exists_never(path) == FALSE

\* pdf_path.exists()
pdf_exists(path) == path \in DOMAIN pdf_dir

\* a retry test that lets one more attempt through, for comparison
retry_again_once_more(attempt) == attempt <= MAX_RETRIES

\* the test that lets the retry loop go on after a failed attempt
retry_again(attempt) == attempt < MAX_RETRIES

\* a downloader without the test, for comparison
not_pdf_never(response) == FALSE

\* a test that refuses a response of exactly 1000 bytes too, for comparison
not_pdf_upto(response) == ~ response.pdf /\ response.size <= MinPdfBytes

\* the response is refused: neither a PDF content type nor 1000 bytes
not_pdf(response) == ~ response.pdf /\ response.size < MinPdfBytes

\* A pool thread takes the task and runs _download_single up to the retry
\* loop (lines 88-101).
TaskStart(i) ==
    /\ dpc = "running"
    /\ workers[i].st = "queued"
    /\ Cardinality({j \in DOMAIN workers : workers[j].st = "running"}) < max_workers
    /\ LET decision == dl_objs[i]
           pdf_path == pdf_path_of(decision.ecli)
           here == [workers[i] EXCEPT !.existed = pdf_path \in DOMAIN pdf_dir]
       IN IF decision.url = None
          THEN /\ workers' = [workers EXCEPT ![i] =
                                 [here EXCEPT !.st = "done", !.result = "None"]]
               /\ UNCHANGED dl_objs
          ELSE IF pdf_exists(pdf_path)
          THEN /\ dl_objs' = [dl_objs EXCEPT ![i].pdf_path = pdf_path]
               /\ workers' = [workers EXCEPT ![i] =
                                 [here EXCEPT !.st = "done", !.result = "decision"]]
          ELSE /\ workers' = [workers EXCEPT ![i] =
                                 [here EXCEPT !.st = "running", !.attempt = 1]]
               /\ UNCHANGED dl_objs
    /\ UNCHANGED <<dl_input, pdf_dir, max_workers, downloaded_decisions,
                   failed_count, dpc, fetched>>
    /\ UNCHANGED <<storeVars, searchVars, adapterVars, ocrVars, jobVars, chainVars,
                   singletonVars, crawlerVars>>

\* a delay that does not grow, for comparison
retry_delay_constant(attempt) == RETRY_DELAY

\* time.sleep(RETRY_DELAY * attempt)
retry_delay(attempt) == RETRY_DELAY * attempt

\* one attempt of the retry loop ends in a RequestException (lines 126-132)
FetchFails(i) ==
    /\ dpc = "running"
    /\ workers[i].st = "running"
    /\ LET w == workers[i]
           tried == [w EXCEPT !.calls = @ + 1, !.failures = @ + 1]
       IN IF retry_again(w.attempt)
          THEN workers' = [workers EXCEPT ![i] =
                   [tried EXCEPT !.attempt = @ + 1,
                                 !.delays = Append(@, retry_delay(w.attempt))]]
          ELSE workers' = [workers EXCEPT ![i] =
                   [tried EXCEPT !.st = "done", !.result = "None"]]
    /\ UNCHANGED <<dl_input, dl_objs, pdf_dir, max_workers, downloaded_decisions,
                   failed_count, dpc, fetched>>
    /\ UNCHANGED <<storeVars, searchVars, adapterVars, ocrVars, jobVars, chainVars,
                   singletonVars, crawlerVars>>

\* one attempt of the retry loop gets a response (lines 106-124)
Respond(i, response) ==
    /\ dpc = "running"
    /\ workers[i].st = "running"
    /\ LET w == workers[i]
           tried == [w EXCEPT !.calls = @ + 1]
           decision == dl_objs[i]
           pdf_path == pdf_path_of(decision.ecli)
       IN IF not_pdf(response)
          THEN /\ workers' = [workers EXCEPT ![i] =
                                 [tried EXCEPT !.st = "done", !.result = "None"]]
               /\ UNCHANGED <<dl_objs, pdf_dir>>
          ELSE IF ~ response.written
          THEN \* write_bytes raises: the exception leaves _download_single
               /\ workers' = [workers EXCEPT ![i] =
                                 [tried EXCEPT !.st = "done", !.result = "raised"]]
               /\ UNCHANGED <<dl_objs, pdf_dir>>
          ELSE /\ pdf_dir' = (pdf_path :> decision.ecli) @@ pdf_dir
               /\ dl_objs' = [dl_objs EXCEPT ![i].pdf_path = pdf_path]
               /\ workers' = [workers EXCEPT ![i] =
                                 [tried EXCEPT !.st = "done", !.result = "decision"]]
    /\ UNCHANGED <<dl_input, max_workers, downloaded_decisions, failed_count, dpc>>
    /\ UNCHANGED <<storeVars, searchVars, adapterVars, ocrVars, jobVars, chainVars,
                   singletonVars, crawlerVars>>

FetchResponds(i, response) ==
    /\ Respond(i, response)
    /\ UNCHANGED fetched

\* the same step with the response put on record
FetchRespondsSeen(i, response) ==
    /\ Respond(i, response)
    /\ fetched' = [fetched EXCEPT ![i] = <<response>>]

\* a counter that forgets the failure, for comparison
count_failure_dropped(n) == n

\* failed_count += 1
count_failure(n) == n + 1

\* as_completed hands over a finished future (lines 61-73)
Collect(i) ==
    /\ dpc = "running"
    /\ workers[i].st = "done"
    /\ IF workers[i].result = "decision" /\ dl_objs[i].pdf_path # NoPath
       THEN /\ downloaded_decisions' = Append(downloaded_decisions, i)
            /\ UNCHANGED failed_count
       ELSE /\ failed_count' = count_failure(failed_count)
            /\ UNCHANGED downloaded_decisions
    /\ workers' = [workers EXCEPT ![i].st = "collected"]
    /\ UNCHANGED <<dl_input, dl_objs, pdf_dir, max_workers, dpc, fetched>>
    /\ UNCHANGED <<storeVars, searchVars, adapterVars, ocrVars, jobVars, chainVars,
                   singletonVars, crawlerVars>>

\* every future has been handed over: return downloaded_decisions
DownloadReturn ==
    /\ dpc = "running"
    /\ \A i \in DOMAIN workers : workers[i].st = "collected"
    /\ dpc' = "returned"
    /\ UNCHANGED <<dl_input, dl_objs, pdf_dir, max_workers, workers,
                   downloaded_decisions, failed_count, fetched>>
    /\ UNCHANGED <<storeVars, searchVars, adapterVars, ocrVars, jobVars, chainVars,
                   singletonVars, crawlerVars>>

DownloadNext ==
    \/ \E i \in DOMAIN workers : TaskStart(i)
    \/ \E i \in DOMAIN workers : FetchFails(i)
    \/ \E i \in DOMAIN workers, response \in Responses : FetchResponds(i, response)
    \/ \E i \in DOMAIN workers : Collect(i)
    \/ DownloadReturn

\* download_decisions with every response on record
FetchNext ==
    \/ \E i \in DOMAIN workers : TaskStart(i)
    \/ \E i \in DOMAIN workers : FetchFails(i)
    \/ \E i \in DOMAIN workers, response \in Responses : FetchRespondsSeen(i, response)
    \/ \E i \in DOMAIN workers : Collect(i)
    \/ DownloadReturn

(***************************************************************************)
(* convert_ocr.py: the text pipeline, and the hand-over to the index phase *)
(* in main.py.                                                             *)
(***************************************************************************)
MAX_WORKERS_OCR == 2
MinTextChars == 100
DrawChars == 1000

\* A text is a sequence of tokens: runs of characters of a known length and
\* runs of whitespace.
Whitespace == {"ws", "nn"}

TokenLen(tok) ==
    CASE tok = "ws" -> 1
      [] tok = "nn" -> 2
      [] tok = "marker" -> 20
      [] tok = "c50" -> 50
      [] tok = "c99" -> 99
      [] tok = "c100" -> 100
      [] tok = "c101" -> 101
      [] tok = "c150" -> 150

\* len(text)
RECURSIVE text_len(_)
text_len(text) ==
    IF text = <<>> THEN 0 ELSE TokenLen(Head(text)) + text_len(Tail(text))

RECURSIVE lstrip(_)
lstrip(text) ==
    IF text # <<>> /\ Head(text) \in Whitespace THEN lstrip(Tail(text)) ELSE text

RECURSIVE rstrip(_)
rstrip(text) ==
    IF text # <<>> /\ text[Len(text)] \in Whitespace
    THEN rstrip(SubSeq(text, 1, Len(text) - 1))
    ELSE text

\* text.strip()
strip(text) == rstrip(lstrip(text))

\* sep.join(parts)
RECURSIVE join_texts(_, _)
join_texts(parts, sep) ==
    IF parts = <<>> THEN <<>>
    ELSE IF Len(parts) = 1 THEN parts[1]
    ELSE parts[1] \o sep \o join_texts(Tail(parts), sep)

\* text[:n], up to whole tokens
RECURSIVE take_chars(_, _)
take_chars(text, n) ==
    IF text = <<>> \/ TokenLen(Head(text)) > n THEN <<>>
    ELSE <<Head(text)>> \o take_chars(Tail(text), n - TokenLen(Head(text)))

\* "\n\n--- NOVA STRANKA ---\n\n"
PAGE_SEP == <<"nn", "marker", "nn">>

\* A file is a PDF with the text layer of each of its pages, or bytes that
\* no PDF reader opens.
PdfFile(page_texts) == [kind |-> "pdf", pages |-> page_texts]
RawFile == [kind |-> "raw", pages |-> <<>>]

\* a path the process may not look at: Path.exists() raises PermissionError
DeniedFile == [kind |-> "denied", pages |-> <<>>]

\* _extract_text_from_pdf: the non-empty page texts joined by "\n\n"; "" when
\* the reader raises
extract_text_from_pdf(file) ==
    IF file.kind # "pdf" THEN <<>>
    ELSE join_texts(SelectSeq(file.pages, LAMBDA t : t # <<>>), <<"nn">>)

\* {safe_ecli}_ocr.pdf in PDF_OCR_PATH
ocr_path_of(ecli) == safe_ecli(ecli) \o <<"_ocr.pdf">>

\* the files the download stage can have left for a decision
OrigFiles ==
    { RawFile,
      DeniedFile,
      PdfFile(<< <<>> >>),
      PdfFile(<< <<"c100">> >>),
      PdfFile(<< <<"c101">> >>),
      PdfFile(<< <<"ws", "c99", "ws", "ws">> >>),
      PdfFile(<< <<"c50">>, <<"c50">> >>) }

\* the files an earlier run of the text pipeline can have left
OcrFiles ==
    { RawFile, PdfFile(<< <<"c101">> >>), PdfFile(<< <<"c150">> >>) }

\* the lists convert_decisions is called with: one Decision per ecli, with or
\* without an artifact path
OcrInputs ==
    UNION { [S -> BOOLEAN] :
            S \in {T \in SUBSET Eclis : Cardinality(T) <= MaxOcrDocs} }

InputDecision(ecli, has_path) ==
    [ecli |-> ecli, title |-> "t1", url |-> "u1",
     pdf_path |-> IF has_path THEN pdf_path_of(ecli) ELSE NoPath,
     ocr_pdf_path |-> NoPath, full_text |-> NoText]

\* what rendering and recognition can end in for a readable PDF: the
\* recognizer raises, or gives every page this text; whether the
\* reconstruction of the searchable PDF goes through; and, when it does not,
\* whether the write of the first image's bytes in the handler goes through
OcrOutcomes ==
    { o \in [raises : BOOLEAN, text : {<<>>, <<"c150">>},
             rebuilt : BOOLEAN, fallback : BOOLEAN] : o.rebuilt => o.fallback }

NewOcrTask(decision) ==
    [st |-> "queued", d |-> decision, result |-> "pending",
     had_orig |-> FALSE, ocr_at_start |-> <<>>,
     orig_reads |-> 0, renders |-> 0, ocr_calls |-> 0, ocr_outcome |-> "none",
     reassembly |-> "none", recognized |-> <<>>]

OcrIdle ==
    /\ ocr_input = <<>>
    /\ orig_dir = <<>>
    /\ ocr_dir = <<>>
    /\ tasks = <<>>
    /\ processed_decisions = <<>>
    /\ ocr_failed_count = 0
    /\ forwarded = <<>>
    /\ opc = "idle"
    /\ first_run = <<>>

\* convert_decisions up to the submission of every decision (lines 52-63)
OcrInit ==
    /\ \E paths \in OcrInputs :
        /\ ocr_input = [e \in DOMAIN paths |-> InputDecision(e, paths[e])]
        /\ orig_dir \in UNION { [N -> OrigFiles] :
                                  N \in SUBSET {pdf_path_of(e) : e \in DOMAIN paths} }
        /\ ocr_dir \in UNION { [N -> OcrFiles] :
                                  N \in SUBSET {ocr_path_of(e) : e \in DOMAIN paths} }
    /\ tasks = [e \in DOMAIN ocr_input |-> NewOcrTask(ocr_input[e])]
    /\ processed_decisions = <<>>
    /\ ocr_failed_count = 0
    /\ forwarded = <<>>
    /\ opc = "running"
    /\ first_run = <<>>

\* a converter that never finds the searchable PDF, for comparison
ocr_exists_never(path) == FALSE

\* ocr_pdf_path.exists()
ocr_exists(path) == path \in DOMAIN ocr_dir

\* a text test with the threshold one character higher, for comparison
has_text_longer(existing_text) ==
    existing_text # <<>> /\ text_len(strip(existing_text)) > MinTextChars + 1

\* existing_text and len(existing_text.strip()) > 100
has_text(existing_text) ==
    existing_text # <<>> /\ text_len(strip(existing_text)) > MinTextChars

\* A pool process takes the task, with its own copy of the Decision, and runs
\* _convert_single up to the reuse of an existing searchable PDF
\* (lines 93-112).
ConvertStart(e) ==
    /\ opc = "running"
    /\ tasks[e].st = "queued"
    /\ Cardinality({x \in DOMAIN tasks : tasks[x].st = "started"}) < MAX_WORKERS_OCR
    /\ LET t == tasks[e]
           decision == t.d
           ocr_pdf_path == ocr_path_of(decision.ecli)
           here == [t EXCEPT
                      !.had_orig = /\ decision.pdf_path # NoPath
                                   /\ decision.pdf_path \in DOMAIN orig_dir
                                   /\ orig_dir[decision.pdf_path] # DeniedFile,
                      !.ocr_at_start = IF ocr_pdf_path \in DOMAIN ocr_dir
                                       THEN <<ocr_dir[ocr_pdf_path]>> ELSE <<>>]
       IN IF decision.pdf_path = NoPath \/ decision.pdf_path \notin DOMAIN orig_dir
          THEN tasks' = [tasks EXCEPT ![e] =
                            [here EXCEPT !.st = "done", !.result = "None"]]
          ELSE IF orig_dir[decision.pdf_path] = DeniedFile
          THEN \* pdf_path.exists() raises: the exception leaves _convert_single
               tasks' = [tasks EXCEPT ![e] =
                            [here EXCEPT !.st = "done", !.result = "raised"]]
          ELSE IF ocr_exists(ocr_pdf_path)
          THEN tasks' = [tasks EXCEPT ![e] =
                   [here EXCEPT
                      !.st = "done", !.result = "decision",
                      !.d = [decision EXCEPT
                               !.ocr_pdf_path = ocr_pdf_path,
                               !.full_text =
                                  <<extract_text_from_pdf(ocr_dir[ocr_pdf_path])>>]]]
          ELSE tasks' = [tasks EXCEPT ![e] = [here EXCEPT !.st = "started"]]
    /\ UNCHANGED <<ocr_input, orig_dir, ocr_dir, processed_decisions,
                   ocr_failed_count, forwarded, opc>>
    /\ UNCHANGED first_run
    /\ UNCHANGED <<storeVars, searchVars, adapterVars, downloadVars, jobVars, chainVars,
                   singletonVars, crawlerVars>>

\* _create_searchable_pdf without its handler: an error in the reconstruction
\* leaves the function
returns_only_rebuilt(outcome) == outcome.rebuilt

\* _create_searchable_pdf returns normally when the reconstruction goes
\* through, or when it raises and the handler's write_bytes of images[0] goes
\* through; an error raised inside the handler leaves the function
\* (lines 177, 209-212)
returns_normally(outcome) == outcome.rebuilt \/ outcome.fallback

\* _create_searchable_pdf: one page per image with the first characters of
\* its text drawn on it; when that raises, the bytes of the first image
create_searchable_pdf(full_text_parts, rebuilt) ==
    IF rebuilt
    THEN PdfFile([i \in 1..Len(full_text_parts) |->
                     take_chars(full_text_parts[i], DrawChars)])
    ELSE RawFile

\* the rest of _convert_single: extraction from the original, then the copy
\* or rendering, recognition and reconstruction (lines 114-159)
ConvertText(e, outcome) ==
    /\ opc = "running"
    /\ tasks[e].st = "started"
    /\ LET t == tasks[e]
           decision == t.d
           pdf_file == orig_dir[decision.pdf_path]
           ocr_pdf_path == ocr_path_of(decision.ecli)
           existing_text == extract_text_from_pdf(pdf_file)
           read == [t EXCEPT !.orig_reads = @ + 1, !.st = "done"]
           full_text_parts == [i \in 1..Len(pdf_file.pages) |-> outcome.text]
           full_text == join_texts(full_text_parts, PAGE_SEP)
       IN IF has_text(existing_text)
          THEN /\ ocr_dir' = (ocr_pdf_path :> pdf_file) @@ ocr_dir
               /\ tasks' = [tasks EXCEPT ![e] =
                     [read EXCEPT
                        !.result = "decision",
                        !.d = [decision EXCEPT !.ocr_pdf_path = ocr_pdf_path,
                                               !.full_text = <<existing_text>>]]]
          ELSE IF pdf_file.kind # "pdf"
          THEN \* convert_from_path raises
               /\ tasks' = [tasks EXCEPT ![e] =
                     [read EXCEPT !.result = "None", !.renders = @ + 1,
                                  !.ocr_outcome = "render_raised"]]
               /\ UNCHANGED ocr_dir
          ELSE IF outcome.raises
          THEN \* image_to_string raises on the first page
               /\ tasks' = [tasks EXCEPT ![e] =
                     [read EXCEPT !.result = "None", !.renders = @ + 1,
                                  !.ocr_calls = @ + 1,
                                  !.ocr_outcome = "ocr_raised"]]
               /\ UNCHANGED ocr_dir
          ELSE IF ~returns_normally(outcome)
          THEN \* the error of the handler is caught at line 157
               /\ tasks' = [tasks EXCEPT ![e] =
                     [read EXCEPT !.result = "None", !.renders = @ + 1,
                                  !.ocr_calls = @ + Len(full_text_parts),
                                  !.ocr_outcome = IF strip(full_text) = <<>>
                                                  THEN "blank" ELSE "text",
                                  !.recognized = <<full_text>>,
                                  !.reassembly = IF outcome.fallback
                                                 THEN "raised" ELSE "raised twice"]]
               /\ UNCHANGED ocr_dir
          ELSE /\ ocr_dir' = (ocr_pdf_path :>
                                create_searchable_pdf(full_text_parts, outcome.rebuilt))
                             @@ ocr_dir
               /\ tasks' = [tasks EXCEPT ![e] =
                     [read EXCEPT
                        !.result = "decision", !.renders = @ + 1,
                        !.ocr_calls = @ + Len(full_text_parts),
                        !.ocr_outcome = IF strip(full_text) = <<>>
                                        THEN "blank" ELSE "text",
                        !.recognized = <<full_text>>,
                        !.reassembly = IF outcome.rebuilt THEN "ok" ELSE "raised",
                        !.d = [decision EXCEPT !.ocr_pdf_path = ocr_pdf_path,
                                               !.full_text = <<full_text>>]]]
    /\ UNCHANGED <<ocr_input, orig_dir, processed_decisions,
                   ocr_failed_count, forwarded, opc>>
    /\ UNCHANGED first_run
    /\ UNCHANGED <<storeVars, searchVars, adapterVars, downloadVars, jobVars, chainVars,
                   singletonVars, crawlerVars>>

\* as_completed hands over a finished future (lines 66-78)
ConvertCollect(e) ==
    /\ opc = "running"
    /\ tasks[e].st = "done"
    /\ IF tasks[e].result = "decision" /\ tasks[e].d.ocr_pdf_path # NoPath
       THEN /\ processed_decisions' = Append(processed_decisions, tasks[e].d)
            /\ UNCHANGED ocr_failed_count
       ELSE /\ ocr_failed_count' = ocr_failed_count + 1
            /\ UNCHANGED processed_decisions
    /\ tasks' = [tasks EXCEPT ![e].st = "collected"]
    /\ UNCHANGED <<ocr_input, orig_dir, ocr_dir, forwarded, opc>>
    /\ UNCHANGED first_run
    /\ UNCHANGED <<storeVars, searchVars, adapterVars, downloadVars, jobVars, chainVars,
                   singletonVars, crawlerVars>>

\* every future has been handed over: return processed_decisions
ConvertReturn ==
    /\ opc = "running"
    /\ \A e \in DOMAIN tasks : tasks[e].st = "collected"
    /\ opc' = "returned"
    /\ UNCHANGED <<ocr_input, orig_dir, ocr_dir, tasks, processed_decisions,
                   ocr_failed_count, forwarded>>
    /\ UNCHANGED first_run
    /\ UNCHANGED <<storeVars, searchVars, adapterVars, downloadVars, jobVars, chainVars,
                   singletonVars, crawlerVars>>

\* run() after the OCR phase: nothing left ends the run, otherwise the list
\* goes to the index phase (main.py lines 58-66)
IndexPhase ==
    /\ opc = "returned"
    /\ IF processed_decisions = <<>>
       THEN /\ opc' = "stopped"
            /\ UNCHANGED forwarded
       ELSE /\ opc' = "indexed"
            /\ forwarded' = processed_decisions
    /\ UNCHANGED <<ocr_input, orig_dir, ocr_dir, tasks, processed_decisions,
                   ocr_failed_count>>
    /\ UNCHANGED first_run
    /\ UNCHANGED <<storeVars, searchVars, adapterVars, downloadVars, jobVars, chainVars,
                   singletonVars, crawlerVars>>

\* convert_decisions is called once more with the list of the first call:
\* the caller's Decision objects are as they were, the files of both
\* directories are those the first call left
ConvertAgain ==
    /\ opc = "returned"
    /\ first_run = <<>>
    /\ DOMAIN ocr_input # {}
    /\ first_run' = tasks
    /\ tasks' = [e \in DOMAIN ocr_input |-> NewOcrTask(ocr_input[e])]
    /\ processed_decisions' = <<>>
    /\ ocr_failed_count' = 0
    /\ opc' = "running"
    /\ UNCHANGED <<ocr_input, orig_dir, ocr_dir, forwarded>>
    /\ UNCHANGED <<storeVars, searchVars, adapterVars, downloadVars, jobVars, chainVars,
                   singletonVars, crawlerVars>>

OcrNext ==
    \/ \E e \in DOMAIN tasks : ConvertStart(e)
    \/ \E e \in DOMAIN tasks, outcome \in OcrOutcomes : ConvertText(e, outcome)
    \/ \E e \in DOMAIN tasks : ConvertCollect(e)
    \/ ConvertReturn
    \/ IndexPhase

\* convert_decisions, and a second call of it on the same list
RerunNext ==
    \/ \E e \in DOMAIN tasks : ConvertStart(e)
    \/ \E e \in DOMAIN tasks, outcome \in OcrOutcomes : ConvertText(e, outcome)
    \/ \E e \in DOMAIN tasks : ConvertCollect(e)
    \/ ConvertReturn
    \/ ConvertAgain
    \/ IndexPhase

(***************************************************************************)
(* Inputs of the store.                                                    *)
(***************************************************************************)
StoreEclis == {"E1", "E2"}
Titles     == {"t1", "t2"}
Texts      == {None, "x1", "x2"}
\* the fields the store treats alike, drawn together
Profiles ==
    { [date |-> <<>>, url |-> None, keywords |-> <<>>, metadata |-> {}],
      [date |-> <<[day |-> 1, usec |-> 0]>>, url |-> "u1",
       keywords |-> << <<"a">>, <<"b">> >>, metadata |-> {}],
      [date |-> <<[day |-> 2, usec |-> 5]>>, url |-> "u1",
       keywords |-> << <<"a", ",", "b">> >>, metadata |-> {}],
      [date |-> <<>>, url |-> "u1",
       keywords |-> << <<"a">> >>,
       metadata |-> {<<"spisova_znacka", "5 As 1/2025">>}] }

StoreDecisions ==
    { [ ecli |-> e, title |-> t, date |-> p.date, url |-> p.url,
        pdf_path |-> None, ocr_pdf_path |-> None, full_text |-> x,
        keywords |-> p.keywords, metadata |-> p.metadata ] :
      e \in StoreEclis, t \in Titles, x \in Texts, p \in Profiles }

(***************************************************************************)
(* storage.py: the operations.                                             *)
(***************************************************************************)
StoreInit ==
    /\ rows = {}
    /\ fts = {}
    /\ seq = 0
    /\ clock = 0
    /\ lastOp = [op |-> "none"]

\* the values save_decision binds to the INSERT, under the next rowid
decision_row(d, id, at) ==
    [ id           |-> id,
      ecli         |-> d.ecli,
      title        |-> d.title,
      date         |-> date_str(d.date),
      url          |-> d.url,
      pdf_path     |-> d.pdf_path,
      ocr_pdf_path |-> d.ocr_pdf_path,
      full_text    |-> d.full_text,
      keywords     |-> keywords_str(d.keywords),
      updated_at   |-> at ]

\* DecisionStorage.save_decision; ok is FALSE when execute or commit raises
\* sqlite3.Error (a locked database, say): nothing is written and False is
\* returned
save_decision(d, ok) ==
    /\ clock < MaxWrites
    /\ IF ok
       THEN LET row == decision_row(d, seq + 1, clock + 1)
            IN /\ rows' = insert_or_replace(rows, row)
               /\ fts' = decisions_ai(fts, row)
               /\ seq' = row.id
               /\ lastOp' = [ op |-> "save", d |-> d, at |-> clock + 1,
                              replaced |-> \E r \in rows : r.ecli = d.ecli ]
       ELSE /\ UNCHANGED <<rows, fts, seq>>
            /\ lastOp' = [op |-> "save failed"]
    /\ clock' = clock + 1
    /\ UNCHANGED <<searchVars, adapterVars, downloadVars, ocrVars, jobVars, chainVars,
                   singletonVars, crawlerVars>>

\* the lists save_decisions is called with
BatchDecisions ==
    {d \in StoreDecisions :
        d.full_text = None /\ d.url = None /\ d.keywords = <<>> /\ d.metadata = {}}

\* a counter that counts every record, for comparison
count_saved_all(n, ok) == n + 1

\* if self.save_decision(decision): saved_count += 1
count_saved(n, ok) == IF ok THEN n + 1 ELSE n

\* the loop of save_decisions over the list; db holds the table, the index,
\* the rowid sequence, the time and saved_count
RECURSIVE save_loop(_, _, _)
save_loop(db, ds, oks) ==
    IF ds = <<>> THEN db
    ELSE LET row == decision_row(Head(ds), db.seq + 1, db.clock + 1)
             written == IF Head(oks)
                        THEN [db EXCEPT !.rows = insert_or_replace(@, row),
                                        !.fts = decisions_ai(@, row),
                                        !.seq = row.id]
                        ELSE db
         IN  save_loop([written EXCEPT !.clock = @ + 1,
                                       !.saved_count = count_saved(@, Head(oks))],
                       Tail(ds), Tail(oks))

\* DecisionStorage.save_decisions
save_decisions(ds, oks) ==
    /\ clock + Len(ds) <= MaxWrites
    /\ LET db == save_loop([rows |-> rows, fts |-> fts, seq |-> seq,
                            clock |-> clock, saved_count |-> 0], ds, oks)
       IN  /\ rows' = db.rows
           /\ fts' = db.fts
           /\ seq' = db.seq
           /\ clock' = db.clock
           /\ lastOp' = [op |-> "save many", ds |-> ds, oks |-> oks,
                         returned |-> db.saved_count, was_empty |-> rows = {}]
    /\ UNCHANGED <<searchVars, adapterVars, downloadVars, ocrVars, jobVars, chainVars,
                   singletonVars, crawlerVars>>

\* web_app.py background_download:
\*   UPDATE decisions SET full_text = ?, url = ? WHERE id = ?
update_full_text(id, text, url) ==
    /\ clock < MaxWrites
    /\ \E old \in rows :
         /\ old.id = id
         /\ LET new == [old EXCEPT !.full_text = text, !.url = url]
            IN /\ rows' = (rows \ {old}) \cup {new}
               /\ fts' = decisions_au(fts, old, new)
    /\ lastOp' = [op |-> "update", id |-> id]
    /\ clock' = clock + 1
    /\ UNCHANGED seq
    /\ UNCHANGED <<searchVars, adapterVars, downloadVars, ocrVars, jobVars, chainVars,
                   singletonVars, crawlerVars>>

\* What the titles and texts of the model say, as the unicode61 tokenizer of
\* FTS5 splits them: lower case, diacritics removed.
tokenize(value) ==
    CASE value = "t1" -> <<"rozhodnuti">>
      [] value = "t2" -> <<"plan">>
      [] value = "x1" -> <<"uzemni", "plan", "obce">>
      [] value = "x2" -> <<"plan", "velmi", "uzemni">>
      [] OTHER        -> <<>>

\* the query string "územní plán" of the test, tokenized
Query == <<"uzemni", "plan">>

\* MATCH ?: the query string is an FTS5 expression; barewords separated by
\* blanks are terms joined by an implicit AND, each looked up in every indexed
\* column of the row
fts_match(index, rowid, query) ==
    \A k \in 1..Len(query) :
        \E p \in index :
            /\ p[1] = rowid
            /\ \E n \in 1..Len(tokenize(p[3])) : tokenize(p[3])[n] = query[k]

\* the values of LIMIT the model draws
Limits == 0..2

\* search_fulltext: the rows of decisions joined to the matching rowids of
\* decisions_fts, the first `limit` by rank.  The rank is not modelled: the
\* operator gives every list the cut can leave, as a set of rows.
search_fulltext(query, limit) ==
    LET matching == {r \in rows : fts_match(fts, r.id, query)}
    IN  {S \in SUBSET matching :
            Cardinality(S) = IF Cardinality(matching) < limit
                             THEN Cardinality(matching) ELSE limit}

StoreNext ==
    \/ \E d \in StoreDecisions, ok \in BOOLEAN : save_decision(d, ok)
    \/ \E r \in rows, x \in Texts \ {None} :
           update_full_text(r.id, x, "u2")

\* the index phase and the tests: the store is written by save_decisions only
BatchNext ==
    \E n \in 0..MaxBatch :
        \E ds \in [1..n -> BatchDecisions], oks \in [1..n -> BOOLEAN] :
            save_decisions(ds, oks)

(***************************************************************************)
(* job_manager.py and the background threads of web_app.py: the jobs.      *)
(***************************************************************************)
JobTypes == {"search_nss", "download_all", "download_single"}
LoopJobs == {"search_nss", "download_all"}

\* job_id = f"{job_type}_{int(time.time())}"
job_id_of(job_type, t) == <<job_type, "_", ToString(t)>>

\* JobStatus.__init__; results holds len(self.results), completed_at is
\* None or the mark of a datetime.now() (no operation reads its value)
JobStatus(job_id, job_type) ==
    [job_id |-> job_id, job_type |-> job_type, status |-> "running",
     progress |-> 0, total |-> 0, results |-> 0, error |-> None,
     completed_at |-> None, cancel_requested |-> FALSE]

update(job, progress, total) ==
    [job EXCEPT !.progress = progress, !.total = total]

add_result(job) == [job EXCEPT !.results = @ + 1]

complete(job, t) == [job EXCEPT !.status = "completed", !.completed_at = "datetime"]

fail(job, error, t) ==
    [job EXCEPT !.status = "failed", !.error = error, !.completed_at = "datetime"]

cancel(job) == [job EXCEPT !.cancel_requested = TRUE]

\* The thread of one job: where it stands, the units it has to work through,
\* and what it did: flag checks made, units started and ended, whether a unit
\* was started while the flag was set, whether the flag stopped the loop.
NewThread(n, pc) ==
    [pc |-> pc, n |-> n, i |-> 0, checks |-> 0, started |-> 0, ended |-> 0,
     started_cancelled |-> FALSE, stopped |-> FALSE]

JobsInit ==
    /\ job_objs = <<>>
    /\ registry = <<>>
    /\ jnow = 1762400000
    /\ jthreads = <<>>
    /\ cancel_seen = <<>>

RECURSIVE UnitsOf(_)
UnitsOf(threads) ==
    IF threads = <<>> THEN 0 ELSE Head(threads).n + UnitsOf(Tail(threads))

\* JobManager.create_job, called by an endpoint that then starts the thread.
\* n is the number of results or rows the job will find; the bulk download
\* starts no thread when it finds no row, the single download has one unit.
\* t is what int(time.time()) gives, never less than at the call before.
create_job(job_type, n, t) ==
    /\ Len(job_objs) < MaxJobs
    /\ t >= jnow
    /\ UnitsOf(jthreads) + n <= MaxUnits
    /\ job_type = "download_single" => n = 1
    /\ LET job_id == job_id_of(job_type, t)
       IN  /\ job_objs' = Append(job_objs, JobStatus(job_id, job_type))
           /\ registry' = (job_id :> Len(job_objs) + 1) @@ registry
    /\ jthreads' = Append(jthreads,
           NewThread(n, CASE job_type # "download_all" -> "created"
                          [] job_type = "download_all" /\ n = 0 -> "none"
                          [] OTHER -> "loop"))
    /\ jnow' = t
    /\ UNCHANGED cancel_seen
    /\ UNCHANGED <<storeVars, searchVars, adapterVars, downloadVars, ocrVars, chainVars,
                   singletonVars, crawlerVars>>

\* JobManager.get_job: self.jobs.get(job_id), the object's index or nothing
get_job(job_id) ==
    IF job_id \in DOMAIN registry THEN <<registry[job_id]>> ELSE <<>>

\* a manager that cancels whatever job it finds, for comparison
may_cancel_any(job) == TRUE

\* job.status == "running"
may_cancel(job) == job.status = "running"

\* JobManager.cancel_job as a function of the state: what it returns and the
\* JobStatus objects as it leaves them
cancel_job_call(job_id) ==
    LET job == get_job(job_id)
    IN  IF job # <<>> /\ may_cancel(job_objs[job[1]])
        THEN [returned |-> TRUE,
              job_objs |-> [job_objs EXCEPT ![job[1]] = cancel(@)]]
        ELSE [returned |-> FALSE, job_objs |-> job_objs]

\* a cancel_job call that changes the state: the flag is set on a job that
\* is registered under job_id and still "running"
cancel_job(job_id) ==
    /\ get_job(job_id) # <<>>
    /\ LET j == get_job(job_id)[1]
       IN  /\ may_cancel(job_objs[j])
           /\ ~job_objs[j].cancel_requested
           /\ job_objs' = [job_objs EXCEPT ![j] = cancel(@)]
    /\ UNCHANGED <<registry, jnow, jthreads>>
    /\ UNCHANGED cancel_seen
    /\ UNCHANGED <<storeVars, searchVars, adapterVars, downloadVars, ocrVars, chainVars,
                   singletonVars, crawlerVars>>

\* any cancel_job call, with its argument and its result put on record
CancelCall(job_id) ==
    /\ job_objs' = cancel_job_call(job_id).job_objs
    /\ cancel_seen' = << [job_id |-> job_id,
                          returned |-> cancel_job_call(job_id).returned,
                          before |-> job_objs] >>
    /\ UNCHANGED <<registry, jnow, jthreads>>
    /\ UNCHANGED <<storeVars, searchVars, adapterVars, downloadVars, ocrVars, chainVars,
                   singletonVars, crawlerVars>>

\* the job_ids a request can name: those create_job can give, registered or
\* not
JobIds == {job_id_of(job_type, t) : job_type \in JobTypes, t \in Times}

\* the JobStatus objects a manager can hold when cancel_job is called: each
\* running, completed or failed, with or without the flag set earlier
HeldJobs ==
    { [JobStatus(job_id_of(job_type, t), job_type) EXCEPT
          !.status = status,
          !.cancel_requested = flag,
          !.error = IF status = "failed" THEN "error" ELSE None,
          !.completed_at = IF status = "running" THEN None ELSE "datetime"] :
      job_type \in JobTypes, t \in Times,
      status \in {"running", "completed", "failed"}, flag \in BOOLEAN }

\* self.jobs after the create_job calls that made objs, in that order
registry_of(objs) ==
    [job_id \in {objs[j].job_id : j \in DOMAIN objs} |->
        CHOOSE j \in DOMAIN objs :
            /\ objs[j].job_id = job_id
            /\ \A k \in DOMAIN objs : objs[k].job_id = job_id => k <= j]

\* a manager with up to MaxJobs jobs, their threads stopped where they are
CancelInit ==
    /\ job_objs \in UNION { [1..n -> HeldJobs] : n \in 0..MaxJobs }
    /\ registry = registry_of(job_objs)
    /\ jnow = 1762400001
    /\ jthreads = [j \in DOMAIN job_objs |-> NewThread(0, "none")]
    /\ cancel_seen = <<>>

CancelNext == \E job_id \in JobIds : CancelCall(job_id)

\* the flag check at the top of the loop
cancel_check_never(job) == FALSE

cancel_check(job) == job.cancel_requested

\* search_and_download sets the progress and waits for the result list;
\* when that fails it returns [] and background_search completes the job.
\* (The thread of a bulk download starts at its loop.)
JobLoopStart(j, found) ==
    /\ j \in 1..Len(jthreads)
    /\ jthreads[j].pc = "created"
    /\ job_objs[j].job_type = "search_nss"
    /\ LET connected == update(job_objs[j], 0, MaxUnits)
       IN  job_objs' = [job_objs EXCEPT ![j] =
               IF found THEN connected ELSE complete(connected, jnow)]
    /\ jthreads' = [jthreads EXCEPT ![j].pc = IF found THEN "loop" ELSE "finished"]
    /\ UNCHANGED <<registry, jnow>>
    /\ UNCHANGED cancel_seen
    /\ UNCHANGED <<storeVars, searchVars, adapterVars, downloadVars, ocrVars, chainVars,
                   singletonVars, crawlerVars>>

\* Top of one iteration: the flag is read; when it is set the job is marked
\* "cancelled", complete() is called and the thread returns, otherwise the
\* unit starts.
JobCheck(j) ==
    /\ j \in 1..Len(jthreads)
    /\ jthreads[j].pc = "loop"
    /\ jthreads[j].i < jthreads[j].n
    /\ LET job == job_objs[j]
           w == jthreads[j]
       IN  IF cancel_check(job)
           THEN /\ job_objs' = [job_objs EXCEPT ![j] =
                       complete([job EXCEPT !.status = "cancelled"], jnow)]
                /\ jthreads' = [jthreads EXCEPT ![j] =
                       [w EXCEPT !.pc = "finished", !.checks = @ + 1,
                                 !.stopped = TRUE]]
           ELSE /\ job_objs' = [job_objs EXCEPT ![j] =
                       update(job, w.i + 1,
                              IF job.job_type = "search_nss" THEN MaxUnits ELSE w.n)]
                /\ jthreads' = [jthreads EXCEPT ![j] =
                       [w EXCEPT !.pc = "unit", !.i = @ + 1, !.checks = @ + 1,
                                 !.started = @ + 1,
                                 !.started_cancelled = @ \/ job.cancel_requested]]
    /\ UNCHANGED <<registry, jnow>>
    /\ UNCHANGED cancel_seen
    /\ UNCHANGED <<storeVars, searchVars, adapterVars, downloadVars, ocrVars, chainVars,
                   singletonVars, crawlerVars>>

UnitOutcomes == {"saved", "failed"}

\* One unit runs to its end: the text is saved and counted as a result, or
\* the result or row is skipped or its error logged; in each case the loop
\* goes on.
JobUnitEnds(j, outcome) ==
    /\ j \in 1..Len(jthreads)
    /\ jthreads[j].pc = "unit"
    /\ job_objs[j].job_type \in LoopJobs
    /\ job_objs' = [job_objs EXCEPT ![j] =
           IF outcome = "saved" THEN add_result(@) ELSE @]
    /\ jthreads' = [jthreads EXCEPT ![j].pc = "loop", ![j].ended = @ + 1]
    /\ UNCHANGED <<registry, jnow>>
    /\ UNCHANGED cancel_seen
    /\ UNCHANGED <<storeVars, searchVars, adapterVars, downloadVars, ocrVars, chainVars,
                   singletonVars, crawlerVars>>

\* the loop is exhausted: job.complete()
JobLoopDone(j) ==
    /\ j \in 1..Len(jthreads)
    /\ jthreads[j].pc = "loop"
    /\ jthreads[j].i = jthreads[j].n
    /\ job_objs' = [job_objs EXCEPT ![j] = complete(@, jnow)]
    /\ jthreads' = [jthreads EXCEPT ![j].pc = "finished"]
    /\ UNCHANGED <<registry, jnow>>
    /\ UNCHANGED cancel_seen
    /\ UNCHANGED <<storeVars, searchVars, adapterVars, downloadVars, ocrVars, chainVars,
                   singletonVars, crawlerVars>>

\* api_download_single: the thread opens the page, it reads no flag
JobSingleStart(j) ==
    /\ j \in 1..Len(jthreads)
    /\ jthreads[j].pc = "created"
    /\ job_objs[j].job_type = "download_single"
    /\ job_objs' = [job_objs EXCEPT ![j] = update(@, 0, 1)]
    /\ jthreads' = [jthreads EXCEPT ![j] =
           [@ EXCEPT !.pc = "unit", !.i = 1, !.started = @ + 1,
                     !.started_cancelled = job_objs[j].cancel_requested]]
    /\ UNCHANGED <<registry, jnow>>
    /\ UNCHANGED cancel_seen
    /\ UNCHANGED <<storeVars, searchVars, adapterVars, downloadVars, ocrVars, chainVars,
                   singletonVars, crawlerVars>>

SingleOutcomes == {"saved", "short", "failed"}

\* api_download_single: a text longer than 500 characters completes the job,
\* a shorter one or an error fails it
JobSingleEnds(j, outcome) ==
    /\ j \in 1..Len(jthreads)
    /\ jthreads[j].pc = "unit"
    /\ job_objs[j].job_type = "download_single"
    /\ job_objs' = [job_objs EXCEPT ![j] =
           CASE outcome = "saved"  -> complete(add_result(update(@, 1, 1)), jnow)
             [] outcome = "short"  -> fail(update(@, 1, 1), "short", jnow)
             [] outcome = "failed" -> fail(@, "error", jnow)]
    /\ jthreads' = [jthreads EXCEPT ![j].pc = "finished", ![j].ended = @ + 1]
    /\ UNCHANGED <<registry, jnow>>
    /\ UNCHANGED cancel_seen
    /\ UNCHANGED <<storeVars, searchVars, adapterVars, downloadVars, ocrVars, chainVars,
                   singletonVars, crawlerVars>>

JobsNext ==
    \/ \E job_type \in JobTypes, n \in 0..MaxUnits, t \in Times :
           create_job(job_type, n, t)
    \/ \E job_type \in JobTypes, t \in Times : cancel_job(job_id_of(job_type, t))
    \/ \E j \in 1..MaxJobs, found \in BOOLEAN : JobLoopStart(j, found)
    \/ \E j \in 1..MaxJobs : JobCheck(j)
    \/ \E j \in 1..MaxJobs, outcome \in UnitOutcomes : JobUnitEnds(j, outcome)
    \/ \E j \in 1..MaxJobs : JobLoopDone(j)
    \/ \E j \in 1..MaxJobs : JobSingleStart(j)
    \/ \E j \in 1..MaxJobs, outcome \in SingleOutcomes : JobSingleEnds(j, outcome)

(***************************************************************************)
(* regional_courts.py: RegionalCourtSearcher._search_court, the chain of   *)
(* strategies tried for one court.                                         *)
(***************************************************************************)
ChainOrder == <<"portal", "selenium", "rss">>

\* a record a strategy returns: the k-th Decision of its list
ChainRecord(strat, k) == <<strat, k>>

\* What a call of one strategy ends in: it raises, or returns a list.  The
\* portal and the browser search cut their own list to max_results
\* (result_items[:max_results]); _search_via_rss takes no max_results and
\* returns every item of the feed.
StrategyOuts(strat, limit) ==
    { [raises |-> TRUE, list |-> <<>>] }
    \cup { [raises |-> FALSE, list |-> [k \in 1..n |-> ChainRecord(strat, k)]] :
             n \in 0..(IF strat = "rss" THEN MaxItems ELSE limit) }

ChainIdle ==
    /\ use_selenium = TRUE
    /\ max_results = 1
    /\ strategy_outs = <<>>
    /\ court_decisions = <<>>
    /\ ran = <<>>
    /\ chain_result = <<>>
    /\ cpc = "idle"

\* _search_court is entered: decisions = []
ChainInit ==
    /\ use_selenium \in BOOLEAN
    /\ max_results \in 1..MaxItems
    /\ strategy_outs \in [portal : StrategyOuts("portal", max_results),
                          selenium : StrategyOuts("selenium", max_results),
                          rss : StrategyOuts("rss", max_results)]
    /\ court_decisions = <<>>
    /\ ran = <<>>
    /\ chain_result = <<>>
    /\ cpc = "portal"

\* a chain that never stops at a strategy, for comparison
found_never(list) == FALSE

\* if decisions:
found(list) == list # <<>>

\* list[:n]
take(list, n) == SubSeq(list, 1, IF Len(list) < n THEN Len(list) ELSE n)

\* 1. the central portal (lines 160-166)
TryPortal ==
    /\ cpc = "portal"
    /\ ran' = Append(ran, "portal")
    /\ LET out == strategy_outs.portal
           assigned == IF out.raises THEN court_decisions ELSE out.list
       IN  /\ court_decisions' = assigned
           /\ IF ~ out.raises /\ found(assigned)
              THEN cpc' = "returned" /\ chain_result' = assigned
              ELSE cpc' = "selenium" /\ UNCHANGED chain_result
    /\ UNCHANGED <<use_selenium, max_results, strategy_outs>>
    /\ UNCHANGED <<storeVars, searchVars, adapterVars, downloadVars, ocrVars, jobVars,
                   singletonVars, crawlerVars>>

\* 2. the court's own site through the browser, if self.use_selenium
\* (lines 168-175)
TrySelenium ==
    /\ cpc = "selenium"
    /\ IF ~ use_selenium
       THEN /\ cpc' = "rss"
            /\ UNCHANGED <<court_decisions, ran, chain_result>>
       ELSE /\ ran' = Append(ran, "selenium")
            /\ LET out == strategy_outs.selenium
                   assigned == IF out.raises THEN court_decisions ELSE out.list
               IN  /\ court_decisions' = assigned
                   /\ IF ~ out.raises /\ found(assigned)
                      THEN cpc' = "returned" /\ chain_result' = assigned
                      ELSE cpc' = "rss" /\ UNCHANGED chain_result
    /\ UNCHANGED <<use_selenium, max_results, strategy_outs>>
    /\ UNCHANGED <<storeVars, searchVars, adapterVars, downloadVars, ocrVars, jobVars,
                   singletonVars, crawlerVars>>

\* 3. the RSS feed (lines 177-185): return decisions[:max_results] when the
\* feed gave something, else return decisions
TryRss ==
    /\ cpc = "rss"
    /\ ran' = Append(ran, "rss")
    /\ LET out == strategy_outs.rss
           assigned == IF out.raises THEN court_decisions ELSE out.list
       IN  /\ court_decisions' = assigned
           /\ chain_result' = IF ~ out.raises /\ found(assigned)
                              THEN take(assigned, max_results) ELSE assigned
    /\ cpc' = "returned"
    /\ UNCHANGED <<use_selenium, max_results, strategy_outs>>
    /\ UNCHANGED <<storeVars, searchVars, adapterVars, downloadVars, ocrVars, jobVars,
                   singletonVars, crawlerVars>>

ChainNext ==
    \/ TryPortal
    \/ TrySelenium
    \/ TryRss

(***************************************************************************)
(* job_manager.py: the JobManager singleton.  Thread Importer runs the     *)
(* module body, whose last statement is job_manager = JobManager(); the    *)
(* other threads call JobManager() on their own.  One action per bytecode  *)
(* boundary of __new__ at which another thread can run.                    *)
(***************************************************************************)
Importer == 0
Threads == 0..MaxCallers

NewCaller == [pc |-> "idle", calls |-> 0, got |-> {}, got_unready |-> FALSE]

\* before the first import of job_manager
SingletonInit ==
    /\ cls_instance = <<>>
    /\ cls_lock = {}
    /\ with_jobs = {}
    /\ made = [objects |-> 0, registries |-> 0]
    /\ callers = [t \in Threads |-> NewCaller]
    /\ imported = FALSE

\* the module has been imported and nobody is calling JobManager()
SingletonIdle ==
    /\ cls_instance = <<1>>
    /\ cls_lock = {}
    /\ with_jobs = {1}
    /\ made = [objects |-> 1, registries |-> 1]
    /\ callers = [t \in Threads |->
                    IF t = Importer
                    THEN [pc |-> "done", calls |-> 1, got |-> {1},
                          got_unready |-> FALSE]
                    ELSE NewCaller]
    /\ imported = TRUE

\* a module whose name is visible while its body still runs
can_call_during_import(flag) == TRUE

\* a thread can name JobManager only after its own import of job_manager
\* has returned, and the import of a module that another thread is still
\* executing waits for that thread (web_app.py line 13; the module body ends
\* with line 130)
can_call(flag) == flag

\* the importing thread reaches line 130
ImportCalls ==
    /\ ~imported
    /\ callers[Importer].pc = "idle"
    /\ callers' = [callers EXCEPT ![Importer].pc = "outer"]
    /\ UNCHANGED <<cls_instance, cls_lock, with_jobs, made, imported>>
    /\ UNCHANGED <<storeVars, searchVars, adapterVars, downloadVars, ocrVars,
                   jobVars, chainVars, crawlerVars>>

\* another thread calls JobManager()
ThreadCalls(t) ==
    /\ t # Importer
    /\ can_call(imported)
    /\ callers[t].pc = "idle"
    /\ callers[t].calls < MaxCalls
    /\ callers' = [callers EXCEPT ![t].pc = "outer"]
    /\ UNCHANGED <<cls_instance, cls_lock, with_jobs, made, imported>>
    /\ UNCHANGED <<storeVars, searchVars, adapterVars, downloadVars, ocrVars,
                   jobVars, chainVars, crawlerVars>>

\* line 79: if cls._instance is None
OuterCheck(t) ==
    /\ callers[t].pc = "outer"
    /\ callers' = [callers EXCEPT ![t].pc =
                      IF cls_instance = <<>> THEN "acquire" ELSE "return"]
    /\ UNCHANGED <<cls_instance, cls_lock, with_jobs, made, imported>>
    /\ UNCHANGED <<storeVars, searchVars, adapterVars, downloadVars, ocrVars,
                   jobVars, chainVars, crawlerVars>>

\* line 80: with cls._lock
Acquire(t) ==
    /\ callers[t].pc = "acquire"
    /\ cls_lock = {}
    /\ cls_lock' = {t}
    /\ callers' = [callers EXCEPT ![t].pc = "inner"]
    /\ UNCHANGED <<cls_instance, with_jobs, made, imported>>
    /\ UNCHANGED <<storeVars, searchVars, adapterVars, downloadVars, ocrVars,
                   jobVars, chainVars, crawlerVars>>

\* line 81: if cls._instance is None, under the lock
InnerCheck(t) ==
    /\ callers[t].pc = "inner"
    /\ callers' = [callers EXCEPT ![t].pc =
                      IF cls_instance = <<>> THEN "new" ELSE "release"]
    /\ UNCHANGED <<cls_instance, cls_lock, with_jobs, made, imported>>
    /\ UNCHANGED <<storeVars, searchVars, adapterVars, downloadVars, ocrVars,
                   jobVars, chainVars, crawlerVars>>

\* line 82: cls._instance = super().__new__(cls)
StoreInstance(t) ==
    /\ callers[t].pc = "new"
    /\ made' = [made EXCEPT !.objects = @ + 1]
    /\ cls_instance' = <<made.objects + 1>>
    /\ callers' = [callers EXCEPT ![t].pc = "jobs"]
    /\ UNCHANGED <<cls_lock, with_jobs, imported>>
    /\ UNCHANGED <<storeVars, searchVars, adapterVars, downloadVars, ocrVars,
                   jobVars, chainVars, crawlerVars>>

\* line 83: cls._instance.jobs = {}
StoreJobs(t) ==
    /\ callers[t].pc = "jobs"
    /\ with_jobs' = with_jobs \cup {cls_instance[1]}
    /\ made' = [made EXCEPT !.registries = @ + 1]
    /\ callers' = [callers EXCEPT ![t].pc = "release"]
    /\ UNCHANGED <<cls_instance, cls_lock, imported>>
    /\ UNCHANGED <<storeVars, searchVars, adapterVars, downloadVars, ocrVars,
                   jobVars, chainVars, crawlerVars>>

\* the end of the with block
Release(t) ==
    /\ callers[t].pc = "release"
    /\ cls_lock' = {}
    /\ callers' = [callers EXCEPT ![t].pc = "return"]
    /\ UNCHANGED <<cls_instance, with_jobs, made, imported>>
    /\ UNCHANGED <<storeVars, searchVars, adapterVars, downloadVars, ocrVars,
                   jobVars, chainVars, crawlerVars>>

\* line 84: return cls._instance; for the importing thread the assignment
\* to job_manager and the end of the module body follow
Return(t) ==
    /\ callers[t].pc = "return"
    /\ callers' = [callers EXCEPT ![t] =
           [pc |-> IF t = Importer \/ callers[t].calls + 1 = MaxCalls
                   THEN "done" ELSE "idle",
            calls |-> callers[t].calls + 1,
            got |-> callers[t].got \cup {cls_instance[1]},
            got_unready |-> callers[t].got_unready
                            \/ cls_instance[1] \notin with_jobs]]
    /\ imported' = (imported \/ t = Importer)
    /\ UNCHANGED <<cls_instance, cls_lock, with_jobs, made>>
    /\ UNCHANGED <<storeVars, searchVars, adapterVars, downloadVars, ocrVars,
                   jobVars, chainVars, crawlerVars>>

SingletonNext ==
    \/ ImportCalls
    \/ \E t \in Threads : ThreadCalls(t)
    \/ \E t \in Threads : OuterCheck(t)
    \/ \E t \in Threads : Acquire(t)
    \/ \E t \in Threads : InnerCheck(t)
    \/ \E t \in Threads : StoreInstance(t)
    \/ \E t \in Threads : StoreJobs(t)
    \/ \E t \in Threads : Release(t)
    \/ \E t \in Threads : Return(t)

(***************************************************************************)
(* main.py: NSSCrawler.run, its four phases and what each writes into      *)
(* self.stats.  The lists are kept by their length.                        *)
(***************************************************************************)
\* _create_mock_decisions: range(1, 6)
MockDecisions == 5

NewStats ==
    [decisions_found |-> 0, decisions_downloaded |-> 0,
     decisions_ocr_processed |-> 0, decisions_indexed |-> 0,
     errors |-> 0, end_time |-> None]

CrawlerIdle ==
    /\ run_config = [DEBUG_MODE |-> TRUE, PDF_OCR_ENABLED |-> TRUE]
    /\ run_stats = NewStats
    /\ run_decisions = 0
    /\ rpc = "idle"

\* NSSCrawler() followed by the call of run
CrawlerInit ==
    /\ run_config \in [DEBUG_MODE : BOOLEAN, PDF_OCR_ENABLED : BOOLEAN]
    /\ run_stats = NewStats
    /\ run_decisions = 0
    /\ rpc = "search"

\* 'if not self.decisions: return self.stats', the finally block still to run
AfterPhase(n, next) == IF n = 0 THEN "finally" ELSE next

\* _search_phase with that many decisions left after deduplication; in debug
\* mode the mock decisions are returned before anything is counted
RunSearchPhase(unique) ==
    /\ rpc = "search"
    /\ IF run_config.DEBUG_MODE
       THEN /\ run_decisions' = MockDecisions
            /\ UNCHANGED run_stats
       ELSE /\ run_decisions' = unique
            /\ run_stats' = [run_stats EXCEPT !.decisions_found = unique]
    /\ rpc' = AfterPhase(run_decisions', "download")
    /\ UNCHANGED run_config
    /\ UNCHANGED <<storeVars, searchVars, adapterVars, downloadVars, ocrVars,
                   jobVars, chainVars, singletonVars>>

\* _download_phase: download_decisions returns kept of the decisions, or
\* raises
RunDownloadPhase(kept, raises) ==
    /\ rpc = "download"
    /\ kept <= run_decisions
    /\ IF run_config.DEBUG_MODE
       THEN /\ run_stats' = [run_stats EXCEPT !.decisions_downloaded = run_decisions]
            /\ UNCHANGED run_decisions
       ELSE IF raises
       THEN /\ run_stats' = [run_stats EXCEPT !.errors = @ + 1]
            /\ run_decisions' = 0
       ELSE /\ run_stats' = [run_stats EXCEPT !.decisions_downloaded = kept]
            /\ run_decisions' = kept
    /\ rpc' = AfterPhase(run_decisions', "ocr")
    /\ UNCHANGED run_config
    /\ UNCHANGED <<storeVars, searchVars, adapterVars, downloadVars, ocrVars,
                   jobVars, chainVars, singletonVars>>

\* _ocr_phase: with OCR switched off the list is returned as it is and
\* nothing is counted
RunOcrPhase(kept, raises) ==
    /\ rpc = "ocr"
    /\ kept <= run_decisions
    /\ IF ~ run_config.PDF_OCR_ENABLED
       THEN UNCHANGED <<run_stats, run_decisions>>
       ELSE IF run_config.DEBUG_MODE
       THEN /\ run_stats' = [run_stats EXCEPT !.decisions_ocr_processed = run_decisions]
            /\ UNCHANGED run_decisions
       ELSE IF raises
       THEN /\ run_stats' = [run_stats EXCEPT !.errors = @ + 1]
            /\ run_decisions' = 0
       ELSE /\ run_stats' = [run_stats EXCEPT !.decisions_ocr_processed = kept]
            /\ run_decisions' = kept
    /\ rpc' = AfterPhase(run_decisions', "index")
    /\ UNCHANGED run_config
    /\ UNCHANGED <<storeVars, searchVars, adapterVars, downloadVars, ocrVars,
                   jobVars, chainVars, singletonVars>>

\* _index_phase: index_decisions returns the number it saved, or raises
RunIndexPhase(count, raises) ==
    /\ rpc = "index"
    /\ count <= run_decisions
    /\ run_stats' = IF raises
                    THEN [run_stats EXCEPT !.errors = @ + 1]
                    ELSE [run_stats EXCEPT !.decisions_indexed = count]
    /\ rpc' = "finally"
    /\ UNCHANGED <<run_config, run_decisions>>
    /\ UNCHANGED <<storeVars, searchVars, adapterVars, downloadVars, ocrVars,
                   jobVars, chainVars, singletonVars>>

\* the finally block, then 'return self.stats'
RunFinally ==
    /\ rpc = "finally"
    /\ run_stats' = [run_stats EXCEPT !.end_time = "datetime"]
    /\ rpc' = "returned"
    /\ UNCHANGED <<run_config, run_decisions>>
    /\ UNCHANGED <<storeVars, searchVars, adapterVars, downloadVars, ocrVars,
                   jobVars, chainVars, singletonVars>>

CrawlerNext ==
    \/ \E unique \in 0..MaxFound : RunSearchPhase(unique)
    \/ \E kept \in 0..MockDecisions, raises \in BOOLEAN : RunDownloadPhase(kept, raises)
    \/ \E kept \in 0..MockDecisions, raises \in BOOLEAN : RunOcrPhase(kept, raises)
    \/ \E count \in 0..MockDecisions, raises \in BOOLEAN : RunIndexPhase(count, raises)
    \/ RunFinally

(***************************************************************************)
(* The specifications, one per component.                                  *)
(***************************************************************************)
InitSearch == SearchInit /\ StoreInit /\ AdapterIdle /\ DownloadIdle /\ OcrIdle /\ JobsInit /\ ChainIdle
              /\ SingletonIdle /\ CrawlerIdle
SpecSearch == InitSearch /\ [][SearchNext]_vars

InitStore == StoreInit /\ SearchIdle /\ AdapterIdle /\ DownloadIdle /\ OcrIdle /\ JobsInit /\ ChainIdle
              /\ SingletonIdle /\ CrawlerIdle
SpecStore == InitStore /\ [][StoreNext]_vars

SpecBatch == InitStore /\ [][BatchNext]_vars

InitAdapter == AdapterInit /\ SearchIdle /\ StoreInit /\ DownloadIdle /\ OcrIdle /\ JobsInit /\ ChainIdle
              /\ SingletonIdle /\ CrawlerIdle
SpecAdapter == InitAdapter /\ [][AdapterNext]_vars

InitDownload == DownloadInit /\ SearchIdle /\ StoreInit /\ AdapterIdle /\ OcrIdle /\ JobsInit /\ ChainIdle
              /\ SingletonIdle /\ CrawlerIdle
SpecDownload == InitDownload /\ [][DownloadNext]_vars

\* download_decisions called with one decision
InitFetch == InitDownload /\ Len(dl_input) = 1
SpecFetch == InitFetch /\ [][FetchNext]_vars

InitOCR == OcrInit /\ SearchIdle /\ StoreInit /\ AdapterIdle /\ DownloadIdle /\ JobsInit /\ ChainIdle
              /\ SingletonIdle /\ CrawlerIdle
SpecOCR == InitOCR /\ [][OcrNext]_vars

\* convert_decisions called with one decision, then once more
InitRerun == InitOCR /\ Cardinality(DOMAIN ocr_input) = 1
SpecRerun == InitRerun /\ [][RerunNext]_vars

InitJobs == JobsInit /\ SearchIdle /\ StoreInit /\ AdapterIdle /\ DownloadIdle /\ OcrIdle /\ ChainIdle
              /\ SingletonIdle /\ CrawlerIdle
SpecJobs == InitJobs /\ [][JobsNext]_vars

InitCancel == CancelInit /\ SearchIdle /\ StoreInit /\ AdapterIdle /\ DownloadIdle /\ OcrIdle
              /\ ChainIdle /\ SingletonIdle /\ CrawlerIdle
SpecCancel == InitCancel /\ [][CancelNext]_vars

InitChain == ChainInit /\ SearchIdle /\ StoreInit /\ AdapterIdle /\ DownloadIdle /\ OcrIdle /\ JobsInit
             /\ SingletonIdle /\ CrawlerIdle
SpecChain == InitChain /\ [][ChainNext]_vars

InitSingleton == SingletonInit /\ SearchIdle /\ StoreInit /\ AdapterIdle /\ DownloadIdle /\ OcrIdle
                 /\ JobsInit /\ ChainIdle /\ CrawlerIdle
SpecSingleton == InitSingleton /\ [][SingletonNext]_vars

InitCrawler == CrawlerInit /\ SearchIdle /\ StoreInit /\ AdapterIdle /\ DownloadIdle /\ OcrIdle
               /\ JobsInit /\ ChainIdle /\ SingletonIdle
SpecCrawler == InitCrawler /\ [][CrawlerNext]_vars

\* the two concurrent stages, each on its own input
InitStages == InitDownload \/ InitOCR
StagesNext == DownloadNext \/ OcrNext
SpecStages == InitStages /\ [][StagesNext]_vars

(***************************************************************************)
(* Claims about the search coordinator.                                    *)
(***************************************************************************)
\* the adapters' outputs concatenated in invocation order
OutputOf(src) == IF src \in DOMAIN outputs THEN outputs[src] ELSE <<>>
Concatenated == OutputOf("NSS") \o OutputOf("NS") \o OutputOf("Regional")
FirstIndex(ds, id) ==
    CHOOSE i \in 1..Len(ds) :
        ds[i].ecli = id /\ \A j \in 1..(i-1) : ds[j].ecli # id

\* C1: when _search_phase returns (outside debug mode), the merged list holds
\* exactly one record per identifier the adapters returned, that record is the
\* first one met in invocation order NSS, NS, regional courts, and the records
\* stand in the order of their first appearance.
C1_FirstSeenWins ==
    (spc = "returned" /\ config.DEBUG_MODE = "False") =>
        LET ids == {Concatenated[i].ecli : i \in 1..Len(Concatenated)}
        IN /\ Len(final_decisions) = Cardinality(ids)
           /\ \A id \in ids :
                \E k \in 1..Len(final_decisions) :
                    final_decisions[k] = Concatenated[FirstIndex(Concatenated, id)]
           /\ \A k, l \in 1..Len(final_decisions) :
                k < l => /\ final_decisions[k].ecli \in ids
                         /\ final_decisions[l].ecli \in ids
                         /\ FirstIndex(Concatenated, final_decisions[k].ecli)
                              < FirstIndex(Concatenated, final_decisions[l].ecli)

\* three adapters returned [A(id=1)], [B(id=1)], [C(id=2)] and the phase
\* returned [A, C]
C1_Witness ==
    /\ spc = "returned"
    /\ config.DEBUG_MODE = "False"
    /\ DOMAIN outputs = {"NSS", "NS", "Regional"}
    /\ outputs["NSS"] = <<AdapterDecision("NSS", 1, 1)>>
    /\ outputs["NS"] = <<AdapterDecision("NS", 1, 1)>>
    /\ outputs["Regional"] = <<AdapterDecision("Regional", 1, 2)>>
    /\ final_decisions = <<AdapterDecision("NSS", 1, 1),
                           AdapterDecision("Regional", 1, 2)>>

(***************************************************************************)
(* Claims about the adapters' identifiers.                                 *)
(***************************************************************************)
\* C2: identifier uniqueness at creation - two result items that show
\* distinct decisions never receive the same identifier.
C2_DistinctDecisionsDistinctIds ==
    apc = "parsed" =>
        \A i, j \in 1..Len(page_decisions) :
            page_decisions[i].doc # page_decisions[j].doc
                => page_decisions[i].ecli # page_decisions[j].ecli

\* the identifier a strategy gives an item when the pass runs in year yr at
\* second t and the item is the pos-th of its page
IdentifierAt(strat, item, court, yr, t, pos) ==
    CASE strat = "xlsx" -> xlsx_ecli(item)
      [] strat = "ns" -> ns_ecli(item)
      [] strat = "portal" -> portal_ecli(item, court, yr)
      [] strat = "selenium" -> selenium_ecli(item, court, yr)
      [] strat = "rss" -> rss_ecli(item)
      [] strat = "sbirka" -> sbirka_ecli(pos, t)

\* C13: deterministic identifier synthesis - the identifier an adapter gives
\* an item without a canonical identifier does not depend on the wall clock
\* or on the item's position: a pass over the same item in another year, at
\* another second or with the item at another position gives the same
\* identifier.
C13_IdentifierIndependentOfClockAndPosition ==
    apc = "parsed" =>
        \A i \in 1..Len(items) :
            items[i].ecli = <<>> =>
                \A yr \in Years, t \in Times, pos \in 1..MaxItems :
                    IdentifierAt(strategy, items[i], court_code, yr, t, pos)
                        = page_decisions[i].ecli

(***************************************************************************)
(* Claims about the store.                                                 *)
(***************************************************************************)
\* C3: store round trip - right after save_decision(r), get_decision(r.ecli)
\* returns a Decision equal to r in every field (title, date, url, artifact
\* paths, full_text, keywords, metadata).
C3_RoundTrip ==
    lastOp.op = "save" => get_decision(lastOp.d.ecli) = <<lastOp.d>>

\* C4: upsert is a full overwrite - after a save_decision(r2) that replaced an
\* earlier row of the same ecli, the table holds exactly one row for that ecli,
\* get_decision returns r2's value for every field, and updated_at is the time
\* of the second save.
C4_FullOverwrite ==
    (lastOp.op = "save" /\ lastOp.replaced) =>
        /\ Cardinality({r \in rows : r.ecli = lastOp.d.ecli}) = 1
        /\ get_decision(lastOp.d.ecli) = <<lastOp.d>>
        /\ \A r \in rows : r.ecli = lastOp.d.ecli => r.updated_at = lastOp.at

\* C5: index/store consistency - after any sequence of saves and row updates
\* the index holds exactly the title and full_text of the rows now in the
\* table, and nothing for a row that no longer exists.
C5_IndexMatchesStore ==
    fts = UNION {postings(r) : r \in rows}

(***************************************************************************)
(* Claims about the download manager.                                      *)
(***************************************************************************)
Downloaded == {downloaded_decisions[k] : k \in DOMAIN downloaded_decisions}

Finished(i) == workers[i].st \in {"done", "collected"}

\* C6: idempotent download - a decision with a url whose file was already in
\* PDF_STORAGE_PATH when its task started costs no network call; it comes
\* back in the result list with pdf_path set to that file and every other
\* field as it was passed in.
C6_ExistingArtifactNoNetwork ==
    \A i \in DOMAIN workers :
        (workers[i].existed /\ dl_input[i].url # None) =>
            /\ Finished(i)
            /\ workers[i].calls = 0
            /\ workers[i].result = "decision"
            /\ dl_objs[i] = [dl_input[i] EXCEPT !.pdf_path = pdf_path_of(dl_input[i].ecli)]
            /\ dl_objs[i].pdf_path \in DOMAIN pdf_dir
            /\ workers[i].st = "collected" => i \in Downloaded

C6_Witness ==
    /\ dpc = "returned"
    /\ \E i \in DOMAIN workers :
        /\ workers[i].existed
        /\ dl_input[i].url # None
        /\ i \in Downloaded

\* the tasks whose every session.get so far ended in a RequestException
AllAttemptsFailed(i) ==
    /\ dl_input[i].url # None
    /\ workers[i].st # "queued"
    /\ ~ workers[i].existed
    /\ workers[i].failures = workers[i].calls

\* C7: bounded retry - a decision with a url and no file, all of whose
\* attempts fail, is tried exactly MAX_RETRIES times and no more; it is not
\* in the result list, its pdf_path stays unset, and failed_count counts it
\* exactly once.
C7_BoundedRetry ==
    /\ \A i \in DOMAIN workers :
          AllAttemptsFailed(i) =>
              /\ workers[i].calls <= MAX_RETRIES
              /\ Finished(i) =>
                    /\ workers[i].calls = MAX_RETRIES
                    /\ workers[i].result = "None"
              /\ dl_objs[i].pdf_path = NoPath
              /\ i \notin Downloaded
    /\ failed_count =
          Cardinality({i \in DOMAIN workers :
                          workers[i].st = "collected" /\ i \notin Downloaded})

C7_Witness ==
    /\ dpc = "returned"
    /\ failed_count = 1
    /\ \E i \in DOMAIN workers :
        /\ AllAttemptsFailed(i)
        /\ workers[i].calls = MAX_RETRIES

(***************************************************************************)
(* Claims about the text pipeline.                                         *)
(***************************************************************************)
ConvertFinished(e) == tasks[e].st \in {"done", "collected"}

\* the text a direct extraction from the decision's original gives, trimmed
TrimmedOriginalChars(e) ==
    text_len(strip(extract_text_from_pdf(orig_dir[ocr_input[e].pdf_path])))

\* the task found its original and no searchable PDF when it started
FreshDocument(e) ==
    /\ tasks[e].st # "queued"
    /\ tasks[e].had_orig
    /\ tasks[e].ocr_at_start = <<>>

\* the copy path: no rendering, no recognition, the original copied to the
\* searchable location, full_text the extracted text
CopiedWithoutRecognition(e) ==
    /\ tasks[e].renders = 0
    /\ tasks[e].ocr_calls = 0
    /\ ConvertFinished(e) =>
          /\ tasks[e].result = "decision"
          /\ tasks[e].d.ocr_pdf_path = ocr_path_of(e)
          /\ ocr_path_of(e) \in DOMAIN ocr_dir
          /\ ocr_dir[ocr_path_of(e)] = orig_dir[ocr_input[e].pdf_path]
          /\ tasks[e].d.full_text =
                <<extract_text_from_pdf(orig_dir[ocr_input[e].pdf_path])>>

\* C8 as stated: recognition is skipped for every document whose original
\* holds at least 100 characters of trimmed extractable text and that has no
\* searchable PDF yet; the original is copied and full_text is the extracted
\* text.
C8_SkippedFromHundredChars ==
    \A e \in DOMAIN tasks :
        (FreshDocument(e) /\ TrimmedOriginalChars(e) >= MinTextChars)
            => CopiedWithoutRecognition(e)

\* C8 amended: the same for every document whose original holds more than 100
\* characters of trimmed extractable text.
C8_SkippedAboveHundredChars ==
    \A e \in DOMAIN tasks :
        (FreshDocument(e) /\ TrimmedOriginalChars(e) > MinTextChars)
            => CopiedWithoutRecognition(e)

C8_Witness ==
    \E e \in DOMAIN tasks :
        /\ FreshDocument(e)
        /\ TrimmedOriginalChars(e) > MinTextChars
        /\ tasks[e].st = "collected"
        /\ tasks[e].d \in {processed_decisions[k] : k \in DOMAIN processed_decisions}

\* the reuse path: the decision comes back with ocr_pdf_path at the file
\* found and full_text extracted from it, nothing read from the original and
\* nothing recognized
ReusedSearchable(e) ==
    /\ tasks[e].result = "decision"
    /\ tasks[e].d.ocr_pdf_path = ocr_path_of(e)
    /\ tasks[e].d.full_text = <<extract_text_from_pdf(tasks[e].ocr_at_start[1])>>
    /\ tasks[e].orig_reads = 0
    /\ tasks[e].renders = 0
    /\ tasks[e].ocr_calls = 0

\* C9 as stated: every decision whose searchable PDF already exists comes
\* back with ocr_pdf_path pointing to it and full_text re-extracted from it,
\* with no extraction from the original and no recognition, whatever the
\* state of its original.
C9_ReuseWhateverOriginal ==
    \A e \in DOMAIN tasks :
        (tasks[e].st # "queued" /\ tasks[e].ocr_at_start # <<>>)
            => ReusedSearchable(e)

\* C9 amended: the same for every decision whose pdf_path is set and whose
\* original is on disk.
C9_ReuseWhenOriginalPresent ==
    \A e \in DOMAIN tasks :
        (tasks[e].st # "queued" /\ tasks[e].ocr_at_start # <<>> /\ tasks[e].had_orig)
            => ReusedSearchable(e)

C9_Witness ==
    \E e \in DOMAIN tasks :
        /\ tasks[e].ocr_at_start # <<>>
        /\ tasks[e].had_orig
        /\ tasks[e].st = "collected"
        /\ tasks[e].d \in {processed_decisions[k] : k \in DOMAIN processed_decisions}

\* neither the extraction from the original nor recognition gave usable text
TextUnavailable(e) ==
    /\ FreshDocument(e)
    /\ ConvertFinished(e)
    /\ tasks[e].orig_reads = 1
    /\ tasks[e].ocr_outcome \in {"render_raised", "ocr_raised", "blank"}

\* C10: a downloaded document with TextUnavailable, recognition raising
\* included, is still handed to the index phase with its metadata and without
\* usable full_text; it is never dropped for that reason.
C10_TextUnavailableStillIndexed ==
    opc \in {"indexed", "stopped"} =>
        \A e \in DOMAIN tasks :
            TextUnavailable(e) =>
                \E k \in DOMAIN forwarded :
                    /\ forwarded[k].ecli = e
                    /\ forwarded[k].title = ocr_input[e].title
                    /\ forwarded[k].url = ocr_input[e].url
                    /\ forwarded[k].pdf_path = ocr_input[e].pdf_path
                    /\ \/ forwarded[k].full_text = NoText
                       \/ strip(forwarded[k].full_text[1]) = <<>>

(***************************************************************************)
(* Claims about the coordinator and its adapters' failures.                *)
(***************************************************************************)
\* the adapters whose call failed: the source could not be reached, or the
\* adapter raised
FailedSources ==
    {src \in DOMAIN calls :
        calls[src].source = "unreachable" \/ calls[src].ended = "raised"}

\* C11: fault isolation between sources - when an enabled adapter fails
\* (source unreachable, or it raises), stats.errors rises by one for it, every
\* other enabled adapter is still invoked, and what those adapters return is
\* in the list _search_phase returns.
C11_FaultIsolation ==
    (spc = "returned" /\ config.DEBUG_MODE = "False") =>
        /\ \A i \in 1..Len(Sources) :
              config[Sources[i]] = "True" => Sources[i] \in DOMAIN calls
        /\ stats.errors = Cardinality(FailedSources)
        /\ \A src \in DOMAIN outputs : \A i \in 1..Len(outputs[src]) :
              \E k \in 1..Len(final_decisions) :
                  final_decisions[k].ecli = outputs[src][i].ecli

\* C12: an unreachable source is an error outcome - the adapter's search ends
\* by raising, never by returning a list as if there were no matches.
C12_UnreachableRaises ==
    \A src \in DOMAIN calls :
        calls[src].source = "unreachable" => calls[src].ended = "raised"

(***************************************************************************)
(* Claims about both concurrent stages.                                    *)
(***************************************************************************)
\* C14: no record is silently lost in a stage - every input record of
\* download_decisions and of convert_decisions ends either in the returned
\* list, with the stage's artifact path set, or in the stage's failed_count,
\* exactly once, so |returned| + failed = |input|, also when a worker raises
\* an unexpected error.
C14_NoRecordLost ==
    /\ Len(downloaded_decisions) + failed_count
          = Cardinality({i \in DOMAIN workers : workers[i].st = "collected"})
    /\ dpc = "returned" =>
          Len(downloaded_decisions) + failed_count = Len(dl_input)
    /\ \A k, l \in DOMAIN downloaded_decisions :
          k # l => downloaded_decisions[k] # downloaded_decisions[l]
    /\ \A k \in DOMAIN downloaded_decisions :
          dl_objs[downloaded_decisions[k]].pdf_path # NoPath
    /\ Len(processed_decisions) + ocr_failed_count
          = Cardinality({e \in DOMAIN tasks : tasks[e].st = "collected"})
    /\ opc \in {"returned", "indexed", "stopped"} =>
          Len(processed_decisions) + ocr_failed_count = Cardinality(DOMAIN ocr_input)
    /\ \A k, l \in DOMAIN processed_decisions :
          k # l => processed_decisions[k].ecli # processed_decisions[l].ecli
    /\ \A k \in DOMAIN processed_decisions :
          processed_decisions[k].ocr_pdf_path # NoPath

C14_Witness ==
    /\ dpc = "returned"
    /\ Len(downloaded_decisions) = 1
    /\ failed_count = 1
    /\ \E i \in DOMAIN workers : workers[i].result = "raised"

C16_DistinctIdentifiersDistinctPaths ==
    /\ \A i, j \in DOMAIN dl_objs :
           /\ dl_objs[i].ecli # dl_objs[j].ecli
           /\ dl_objs[i].pdf_path # NoPath
           /\ dl_objs[j].pdf_path # NoPath
           => dl_objs[i].pdf_path # dl_objs[j].pdf_path
    /\ \A i \in DOMAIN dl_objs :
           dl_objs[i].pdf_path # NoPath =>
               pdf_dir[dl_objs[i].pdf_path] = dl_objs[i].ecli
    /\ \A e, f \in DOMAIN tasks :
           /\ e # f
           /\ tasks[e].d.ocr_pdf_path # NoPath
           /\ tasks[f].d.ocr_pdf_path # NoPath
           => tasks[e].d.ocr_pdf_path # tasks[f].d.ocr_pdf_path

(***************************************************************************)
(* Claims about full-text search and save_decisions.                       *)
(***************************************************************************)
\* the words of phrase stand next to each other, in this order, in value
ContainsPhrase(value, phrase) ==
    LET toks == tokenize(value)
    IN  \E n \in 0..(Len(toks) - Len(phrase)) :
            \A k \in 1..Len(phrase) : toks[n + k] = phrase[k]

HasPhrase(r, phrase) ==
    ContainsPhrase(r.title, phrase) \/ ContainsPhrase(r.full_text, phrase)

\* C17: full-text search precision - in every state of the store,
\* search_fulltext("územní plán", limit) returns at most limit records, never
\* a record whose title and full_text are both without the phrase, and, when
\* limit leaves room for all, every record that contains the phrase.
C17_SearchReturnsPhraseMatches ==
    \A limit \in Limits :
        \A result \in search_fulltext(Query, limit) :
            /\ Cardinality(result) <= limit
            /\ \A r \in result : HasPhrase(r, Query)
            /\ \A r \in rows :
                   HasPhrase(r, Query) /\ Cardinality(rows) <= limit => r \in result

\* the records of the last save_decisions call whose own upsert succeeded
SavedOf(op) == {op.ds[k] : k \in {n \in 1..Len(op.ds) : op.oks[n]}}

\* C18: save_decisions returns the number of records whose own upsert
\* succeeded, and afterwards the table holds exactly one row for each
\* identifier among these records; n records with pairwise distinct
\* identifiers saved into an empty store give n rows and the return value n.
C18_SaveManyCountsSuccesses ==
    lastOp.op = "save many" =>
        /\ lastOp.returned = Cardinality({n \in 1..Len(lastOp.ds) : lastOp.oks[n]})
        /\ \A d \in SavedOf(lastOp) :
               Cardinality({r \in rows : r.ecli = d.ecli}) = 1
        /\ (/\ lastOp.was_empty
            /\ \A n \in 1..Len(lastOp.ds) : lastOp.oks[n]
            /\ \A m, n \in 1..Len(lastOp.ds) :
                   m # n => lastOp.ds[m].ecli # lastOp.ds[n].ecli)
           => /\ Cardinality(rows) = Len(lastOp.ds)
              /\ lastOp.returned = Len(lastOp.ds)

\* two records with different identifiers saved into an empty store
C18_Witness ==
    /\ lastOp.op = "save many"
    /\ Len(lastOp.ds) = 2
    /\ lastOp.ds[1].ecli # lastOp.ds[2].ecli
    /\ lastOp.was_empty
    /\ lastOp.returned = 2
    /\ Cardinality(rows) = 2

(***************************************************************************)
(* Claims about the acceptance of a response and the retry delays.         *)
(***************************************************************************)
Responded(i) == fetched[i] # <<>>

\* the response was written to the decision's file and the decision returned
Stored(i) ==
    /\ workers[i].result = "decision"
    /\ dl_objs[i].pdf_path = pdf_path_of(dl_objs[i].ecli)
    /\ dl_objs[i].pdf_path \in DOMAIN pdf_dir

Position(strat) == CHOOSE k \in 1..Len(ChainOrder) : ChainOrder[k] = strat

\* the strategy call gave at least one record
Gave(strat) == ~ strategy_outs[strat].raises /\ strategy_outs[strat].list # <<>>

\* the strategies are called in the fixed order, each at most once, and one
\* is called only if no strategy called before it gave a record
ChainOrderKept ==
    /\ \A m, n \in 1..Len(ran) : m < n => Position(ran[m]) < Position(ran[n])
    /\ \A n \in 1..Len(ran) : \A m \in 1..(n - 1) : ~ Gave(ran[m])
    /\ \A n \in 1..Len(ran) : ran[n] = "selenium" => use_selenium

\* the strategies that were called and gave a record: at most the last one
Givers == {n \in 1..Len(ran) : Gave(ran[n])}

\* C21 as stated: the chain keeps its order, and what _search_court returns
\* is exactly the list of the first strategy that gave a record, or the
\* empty list when none did.
C21_ResultIsFirstOutput ==
    /\ ChainOrderKept
    /\ cpc = "returned" =>
           IF Givers = {}
           THEN chain_result = <<>>
           ELSE \E n \in Givers : chain_result = strategy_outs[ran[n]].list

\* C21 as amended: the same, with the list cut to its first max_results
\* records.
C21_ResultIsFirstOutputCut ==
    /\ ChainOrderKept
    /\ cpc = "returned" =>
           IF Givers = {}
           THEN chain_result = <<>> /\ Len(ran) = (IF use_selenium THEN 3 ELSE 2)
           ELSE \E n \in Givers :
                    /\ n = Len(ran)
                    /\ chain_result = take(strategy_outs[ran[n]].list, max_results)

\* the portal gave nothing, the browser search raised, the feed gave more
\* records than max_results and the first max_results of them came back
C21_Witness ==
    /\ cpc = "returned"
    /\ ran = <<"portal", "selenium", "rss">>
    /\ ~ strategy_outs.portal.raises
    /\ strategy_outs.selenium.raises
    /\ Len(strategy_outs.rss.list) > max_results
    /\ chain_result = take(strategy_outs.rss.list, max_results)

\* the record of task e as _convert_single returns it after recognition: the
\* searchable path set and full_text the recognized text
KeptWithRecognizedText(e) ==
    /\ tasks[e].result = "decision"
    /\ tasks[e].d.ocr_pdf_path = ocr_path_of(tasks[e].d.ecli)
    /\ tasks[e].d.ocr_pdf_path \in DOMAIN ocr_dir
    /\ tasks[e].d.full_text = tasks[e].recognized
    /\ tasks[e].st = "collected" =>
          tasks[e].d \in {processed_decisions[k] : k \in DOMAIN processed_decisions}

C23_CallerRecordsUnchanged ==
    \A i \in DOMAIN dl_input : dl_objs[i] = dl_input[i]

\* C24: a background job that read its cancellation flag set and stopped has
\* status "cancelled" from then on, not "completed" or "failed".
C24_CancelledJobsEndCancelled ==
    \A j \in 1..Len(jthreads) :
        jthreads[j].stopped => job_objs[j].status = "cancelled"

\* C25: every job create_job has made is in the registry under its own
\* job_id: get_job(job_id) gives that job and no other, also for two jobs of
\* one type made within the same second (no cleanup_old_jobs call is made).
C25_RegistryKeepsEveryJob ==
    \A j \in 1..Len(job_objs) :
        /\ job_objs[j].job_id \in DOMAIN registry
        /\ registry[job_objs[j].job_id] = j

C27_StageCountersMonotone ==
    rpc = "returned" =>
        /\ run_stats.decisions_indexed <= run_stats.decisions_ocr_processed
        /\ run_stats.decisions_ocr_processed <= run_stats.decisions_downloaded
        /\ run_stats.decisions_downloaded <= run_stats.decisions_found
        /\ run_stats.end_time # None

\* C28: a record whose first run returned it with its searchable PDF, made
\* by the copy, by the reconstruction or by the fallback, or found in place,
\* is returned by a second run with the same ocr_pdf_path and the same
\* full_text, and the second run makes no recognition call.
C28_RerunSameContent ==
    first_run # <<>> =>
        \A e \in DOMAIN tasks :
            (ConvertFinished(e) /\ first_run[e].result = "decision") =>
                /\ tasks[e].result = "decision"
                /\ tasks[e].ocr_calls = 0
                /\ tasks[e].d.ocr_pdf_path = first_run[e].d.ocr_pdf_path
                /\ tasks[e].d.full_text = first_run[e].d.full_text

\* the response the request of record i got fails the acceptance test
Rejected(i) ==
    /\ Responded(i)
    /\ ~ fetched[i][1].pdf
    /\ fetched[i][1].size < MinPdfBytes

\* C29: a response without a PDF content type and under 1000 bytes ends the
\* download of its record at once: the call returns None, no file is written
\* and pdf_path stays unset, no delay follows and the attempts left are not
\* used; a RequestException uses up one attempt and the next attempt is made
\* as long as one is left.
C29_RejectionEndsAtOnce ==
    \A i \in DOMAIN workers :
        LET w == workers[i]
        IN  /\ Rejected(i) =>
                  /\ w.st \in {"done", "collected"}
                  /\ w.result = "None"
                  /\ pdf_path_of(dl_objs[i].ecli) \notin DOMAIN pdf_dir
                  /\ dl_objs[i].pdf_path = NoPath
                  /\ Len(w.delays) = w.failures
                  /\ w.calls = w.failures + 1
                  /\ w.calls <= MAX_RETRIES
            /\ w.calls = w.failures + (IF Responded(i) THEN 1 ELSE 0)
            /\ w.st = "running" => w.attempt = w.failures + 1
            /\ (w.st \in {"done", "collected"} /\ ~ Responded(i) /\ w.calls > 0)
                  => w.failures = MAX_RETRIES

\* the first request failed and was retried; the second got a response that
\* was refused, and the third attempt was never made
C29_Witness ==
    \E i \in DOMAIN workers :
        /\ Rejected(i)
        /\ workers[i].failures = 1
        /\ workers[i].calls = 2
        /\ workers[i].delays = <<RETRY_DELAY>>
        /\ workers[i].st = "collected"
        /\ failed_count = 1

====
